---- MODULE Spec2Model ----
(***************************************************************************)
(* Model of the shared tutorial player (gated variant, part_000 lines      *)
(* 1-535), together with the annotation routes (part_001) and the progress *)
(* store that decide what the player loads.                                *)
(*                                                                         *)
(* Coordinates are kept in tenths of a world unit, so that 2.9, 3.0 and    *)
(* 3.1 are the integers 29, 30 and 31.                                     *)
(***************************************************************************)
EXTENDS Integers, Sequences, FiniteSets, TLC

\* ------------------------------------------------------------------ bounds
MaxEdits == 1          \* manager edits of the annotation table per behaviour
MaxFrames == 5         \* animation frames per behaviour
MaxQueue == 2    \* messages posted and not yet handled, per direction
MaxPending == 2        \* requests in flight and timers pending at once
MaxRequests == 3       \* requests to the annotation routes, one after another

\* --------------------------------------------------------------- constants
PROXIMITY_THRESHOLD == 30   \* 3.0 world units, in tenths

Ids == {"a", "b", "c"}

\* World position (tenths of a unit) of each annotation of the tutorial.
PosOf(id) ==
  CASE id = "a" -> <<0, 0, 0>>
    [] id = "b" -> <<0, 0, 59>>
    [] OTHER    -> <<0, 0, 31>>

Ann(id, order) ==
  [id |-> id, order |-> order, x |-> PosOf(id)[1], y |-> PosOf(id)[2], z |-> PosOf(id)[3]]

\* Annotation tables a manager can have authored before the learner arrives
\* (rows in insertion order).
InitialAnnotationLists ==
  { <<Ann("a", 3), Ann("b", 1), Ann("c", 2)>>,
    << >> }

\* Camera positions the overlay can report (tenths of a unit).
CameraPositions == { <<0, 0, 0>>, <<0, 0, 30>> }

\* order values a manager sends
Orders == {0}

VARIABLES
  dbAnnotations,     \* server: rows of the tutorial's annotation table
  dbProgress,        \* server: the learner's persisted progress record
  edits,             \* number of manager edits so far
  authenticated,     \* whether the browser holds a valid login
  session,           \* useSession().data is non-null
  tutorial,          \* useState tutorial
  sortedAnnotations, \* the render's sortedAnnotations (follows tutorial)
  world,             \* useState world (non-null)
  loading,           \* useState loading
  error,             \* useState error (non-null)
  fetchStage,        \* position of loadTutorial()
  currentStep,       \* useState currentStep
  completedSteps,    \* useState completedSteps
  saving,            \* useState saving
  progressLoaded,    \* useState progressLoaded
  showWelcome,       \* useState showWelcome
  cameraPosition,    \* useState cameraPosition
  proximityWarning,  \* useState proximityWarning
  warningTimers,     \* pending setTimeout(() => setProximityWarning(null))
  loads,             \* progress GET requests in flight
  saves,             \* progress POST requests in flight
  redirects,         \* pending setTimeout(() => location.href = "/dashboard")
  host,              \* AnnotationViewer component: props, state, backoff timers
  overlay,           \* script of the iframe document: its variables
  toOverlay,         \* postMessage host -> iframe, not yet handled
  toHost,            \* postMessage iframe -> host, not yet handled
  clock,             \* Date.now() of the overlay window
  animation,         \* overlay: the animate loop (lastCameraUpdate, frames)
  call,              \* a handler or function invoked on its own: its inputs
  ret                \* what that invocation returned, stored or posted

vars == << dbAnnotations, dbProgress, edits, authenticated, session, tutorial,
           sortedAnnotations, world, loading, error, fetchStage, currentStep, completedSteps,
           saving, progressLoaded, showWelcome, cameraPosition,
           proximityWarning, warningTimers, loads, saves, redirects,
           host, overlay, toOverlay, toHost, clock, animation, call, ret >>

serverVars == << dbAnnotations, dbProgress, edits >>

\* the animate loop and the invocations looked at on their own
unitVars == << clock, animation, call, ret >>

\* everything the page holds besides the progression state
pageVars == << authenticated, session, tutorial, sortedAnnotations, world, loading, error,
               fetchStage, progressLoaded, showWelcome, cameraPosition, loads,
               redirects >>

\* the annotation viewer and its iframe
viewerVars == << host, overlay, toOverlay, toHost >>

\* what a failed or successful markComplete may touch besides the step
progressVars == << completedSteps, saving, saves >>

warningVars == << proximityWarning, warningTimers >>

\* progress requests in flight and timers pending
pending == Len(saves) + loads + warningTimers + redirects

NoTutorial == [loaded |-> FALSE, annotations |-> << >>]
NoProgress == [exists |-> FALSE, completedAnnotations |-> {}]
NoWarning  == [kind |-> "null", step |-> 0]
AlreadyCompletedWarning == [kind |-> "already completed", step |-> 0]
SequentialWarning(n)    == [kind |-> "complete step first", step |-> n]
ProximityWarningText    == [kind |-> "move closer", step |-> 0]

\* ------------------------------------------------------- derived values
\* Array.prototype.sort((a, b) => a.order - b.order): stable, ascending.
compare(a, b) == a.order - b.order

RECURSIVE InsertSorted(_, _)
InsertSorted(x, s) ==
  IF s = << >> THEN <<x>>
  ELSE IF compare(x, Head(s)) < 0 THEN <<x>> \o s
  ELSE <<Head(s)>> \o InsertSorted(x, Tail(s))

RECURSIVE sort(_)
sort(list) ==
  IF list = << >> THEN << >>
  ELSE InsertSorted(list[Len(list)], sort(SubSeq(list, 1, Len(list) - 1)))

\* Array.prototype.findIndex, 0-based, -1 when the callback accepts no
\* element; the callback is given as the sequence of its results on the
\* elements, in order.
findIndex(hits) ==
  IF \E i \in 1..Len(hits) : hits[i]
  THEN (CHOOSE i \in 1..Len(hits) : hits[i] /\ \A j \in 1..(i - 1) : ~hits[j]) - 1
  ELSE -1

\* mutant: the display sequence is the list as fetched
sortedOf_asFetched(tut) ==
  IF tut.loaded THEN tut.annotations ELSE << >>

\* tutorial?.annotations ? [...tutorial.annotations].sort(...) : []
sortedOf(tut) ==
  IF tut.loaded THEN sort(tut.annotations) ELSE << >>

stepCount == Len(sortedAnnotations)

\* sortedAnnotations[currentStep] is undefined outside the array.
hasCurrentAnnotation == currentStep >= 0 /\ currentStep < stepCount

currentAnnotation == sortedAnnotations[currentStep + 1]

\* Math.round(x / n * 100) for 0 <= x, 0 < n: round half up.
progress ==
  IF stepCount > 0
  THEN (2 * 100 * Cardinality(completedSteps) + stepCount) \div (2 * stepCount)
  ELSE 0

\* floor(Math.sqrt(n)); floor(r) < k iff r < k for an integer k.
SqrtFloor(n) == CHOOSE r \in 0..n : r * r <= n /\ (r + 1) * (r + 1) > n

getDistance(pos1, pos2) ==
  SqrtFloor( (pos1[1] - pos2[1]) * (pos1[1] - pos2[1])
           + (pos1[2] - pos2[2]) * (pos1[2] - pos2[2])
           + (pos1[3] - pos2[3]) * (pos1[3] - pos2[3]) )

\* mutant: <= in place of <
isNearCurrentAnnotation_inclusive ==
  IF hasCurrentAnnotation
  THEN getDistance(cameraPosition,
                   <<currentAnnotation.x, currentAnnotation.y, currentAnnotation.z>>)
         <= PROXIMITY_THRESHOLD
  ELSE FALSE

isNearCurrentAnnotation ==
  IF hasCurrentAnnotation
  THEN getDistance(cameraPosition,
                   <<currentAnnotation.x, currentAnnotation.y, currentAnnotation.z>>)
         < PROXIMITY_THRESHOLD
  ELSE FALSE

\* ann => !completedSteps.has(ann.id)
NotCompleted ==
  [i \in 1..Len(sortedAnnotations) |-> sortedAnnotations[i].id \notin completedSteps]

\* mutant: the negation dropped from the findIndex callback
nextRequiredStep_firstCompleted ==
  findIndex([i \in 1..Len(sortedAnnotations) |-> ~NotCompleted[i]])

nextRequiredStep == findIndex(NotCompleted)

\* The page returns the player (viewer, sidebar, welcome popup) only past
\* the three early returns.
playerRendered == ~loading /\ ~error /\ tutorial.loaded /\ world


\* ------------------------------------------- AnnotationViewer and overlay
\* what the page holds outside the viewer
playerVars == << dbAnnotations, dbProgress, edits, authenticated, session, tutorial,
                 sortedAnnotations, world, loading, error, fetchStage, currentStep,
                 completedSteps, saving, progressLoaded, showWelcome, cameraPosition,
                 proximityWarning, warningTimers, loads, saves, redirects >>

\* The annotation lists and active ids the viewer is given.  Of a list only
\* the ids are kept: the messaging never looks into a row.
ViewerLists == { << >>, << "a" >>, << "a", "b" >> }
ActiveIds == { "null", "a" }

\* delays of the four backup timers of the sendAnnotations effect
BACKOFF == { 100, 300, 500, 1000 }

MinOf(S) == CHOOSE d \in S : \A e \in S : d <= e

\* JSON.stringify(annotations) in the host, parsed again as a literal of the
\* overlay script: rows of strings and numbers come back as they were; a
\* list abstracted to its ids is kept element by element.
annotationsJson(list) == [i \in 1..Len(list) |-> list[i]]

UpdateAnnotations(list, active) ==
  [type |-> "updateAnnotations", annotations |-> list, activeAnnotationId |-> active]

Message(t) == [type |-> t]

HostUnmounted ==
  [mounted |-> FALSE, annotations |-> << >>, activeAnnotationId |-> "null",
   iframeReady |-> FALSE, timers |-> {},
   scheduled |-> UpdateAnnotations(<< >>, "null"), sentAt |-> << >>,
   editMode |-> FALSE]

\* the iframe before a document was written into it; editInbox holds the
\* setEditMode messages posted to the iframe window and not yet dispatched
\* (they and the updateAnnotations messages touch different variables of
\* the overlay, so their order among each other is not kept)
NoOverlay ==
  [stage |-> "none", annotations |-> << >>, activeAnnotationId |-> "null",
   annotationPollInterval |-> FALSE, received |-> FALSE, redrawFailed |-> FALSE,
   editMode |-> FALSE, editInbox |-> << >>]

\* The viewer before the player has rendered it.
ViewerIdle ==
  /\ host = HostUnmounted
  /\ overlay = NoOverlay
  /\ toOverlay = << >>
  /\ toHost = << >>

\* mutant: the cleanup leaves the timers of the superseded run pending and
\* the new run adds none
sendAnnotations_keepsOldTimers(h) ==
  [h EXCEPT !.scheduled = UpdateAnnotations(h.annotations, h.activeAnnotationId),
            !.sentAt = << 0 >>]

\* mutant: the run sets its timers with the closure of the run before it
sendAnnotations_staleClosure(h) ==
  [h EXCEPT !.timers = BACKOFF,
            !.sentAt = << 0 >>]

\* The sendAnnotations effect: cleanup of the previous run (the four
\* clearTimeout), then the run: the message it posts at once is
\* h.scheduled, the four timers are set.  sentAt logs the delays at which
\* this run has sent.
sendAnnotations(h) ==
  [h EXCEPT !.timers = BACKOFF,
            !.scheduled = UpdateAnnotations(h.annotations, h.activeAnnotationId),
            !.sentAt = << 0 >>]

\* The viewer is rendered with an editMode of modes: iframe attached, the
\* sendAnnotations effect runs (the message goes to the still empty iframe
\* window), the world effect writes the overlay document with the
\* annotations and the editMode of this render and registers handleMessage,
\* the editMode effect posts setEditMode.
Mount(modes) ==
  /\ ~host.mounted
  /\ \E list \in ViewerLists, active \in ActiveIds, mode \in modes :
       LET h == sendAnnotations([HostUnmounted EXCEPT !.mounted = TRUE,
                                                     !.annotations = list,
                                                     !.activeAnnotationId = active,
                                                     !.editMode = mode])
       IN  /\ host' = h
           /\ toOverlay' = << h.scheduled >>
           /\ overlay' = [NoOverlay EXCEPT !.annotations = annotationsJson(list),
                                           !.editMode = mode,
                                           !.editInbox = << mode >>]
  /\ toHost' = << >>
  /\ UNCHANGED playerVars
  /\ UNCHANGED unitVars

\* the tutorial player renders the viewer with editMode={false}
ViewerMount == Mount({FALSE})

\* a page that edits annotations renders it with either value
EditorMount == Mount(BOOLEAN)

\* The parent passes the other editMode: the editMode effect posts
\* setEditMode once.
EditModeChange ==
  /\ host.mounted
  /\ Len(overlay.editInbox) < MaxQueue
  /\ host' = [host EXCEPT !.editMode = ~@]
  /\ overlay' = [overlay EXCEPT !.editInbox = Append(@, host'.editMode)]
  /\ UNCHANGED << toOverlay, toHost >>
  /\ UNCHANGED playerVars
  /\ UNCHANGED unitVars

\* The parent passes a different annotation list or active id.
HostPropsChange ==
  /\ host.mounted
  /\ Len(toOverlay) < MaxQueue
  /\ \E list \in ViewerLists, active \in ActiveIds :
       /\ << list, active >> # << host.annotations, host.activeAnnotationId >>
       /\ LET h == sendAnnotations([host EXCEPT !.annotations = list,
                                                !.activeAnnotationId = active])
          IN  /\ host' = h
              /\ toOverlay' = Append(toOverlay, h.scheduled)
  /\ UNCHANGED << overlay, toHost >>
  /\ UNCHANGED playerVars
  /\ UNCHANGED unitVars

\* The tutorial player renders again with nothing of the viewer's props
\* changed in value: sortedAnnotations is a new array on every render, so
\* the dependency list of the effect differs and the effect runs again.
ParentRerender ==
  /\ host.mounted
  /\ Len(toOverlay) < MaxQueue
  /\ host' = sendAnnotations(host)
  /\ toOverlay' = Append(toOverlay, host'.scheduled)
  /\ UNCHANGED << overlay, toHost >>
  /\ UNCHANGED playerVars
  /\ UNCHANGED unitVars

\* The earliest pending backup timer fires: the closure posts the values of
\* the run that set it.
BackoffTimerFires ==
  /\ host.timers # {}
  /\ Len(toOverlay) < MaxQueue
  /\ LET d == MinOf(host.timers)
     IN  host' = [host EXCEPT !.timers = @ \ {d}, !.sentAt = Append(@, d)]
  /\ toOverlay' = Append(toOverlay, host.scheduled)
  /\ UNCHANGED << overlay, toHost >>
  /\ UNCHANGED playerVars
  /\ UNCHANGED unitVars

\* handleMessage of the host for the message at the head of the queue.
handleMessage ==
  /\ host.mounted
  /\ toHost # << >>
  /\ toHost' = Tail(toHost)
  /\ LET m == Head(toHost)
     IN  CASE m.type = "loaded" ->
                IF host.iframeReady
                THEN UNCHANGED << host, toOverlay >>
                ELSE /\ Len(toOverlay) < MaxQueue
                     /\ host' = sendAnnotations([host EXCEPT !.iframeReady = TRUE])
                     /\ toOverlay' = Append(toOverlay, host'.scheduled)
            [] m.type = "requestAnnotations" ->
                /\ Len(toOverlay) < MaxQueue
                /\ toOverlay' = Append(toOverlay,
                      UpdateAnnotations(host.annotations, host.activeAnnotationId))
                /\ UNCHANGED host
            [] m.type = "cameraUpdate" ->
                \* setCameraPosition, onCameraMove: the player renders again
                /\ Len(toOverlay) < MaxQueue
                /\ host' = sendAnnotations(host)
                /\ toOverlay' = Append(toOverlay, host'.scheduled)
            [] OTHER -> UNCHANGED << host, toOverlay >>
  /\ UNCHANGED overlay
  /\ UNCHANGED playerVars
  /\ UNCHANGED unitVars

\* The module script of the overlay document starts: variables initialised,
\* message listener registered, the splat starts loading.
OverlayScriptStarts ==
  /\ host.mounted
  /\ overlay.stage = "none"
  /\ overlay' = [overlay EXCEPT !.stage = "listening"]
  /\ UNCHANGED << host, toOverlay, toHost >>
  /\ UNCHANGED playerVars
  /\ UNCHANGED unitVars

\* mutant: the overlay asks only when its list is empty
OverlayLoaded_asksOnlyIfEmpty ==
  /\ overlay.stage = "listening"
  /\ Len(toHost) + 2 <= MaxQueue
  /\ overlay' = [overlay EXCEPT !.stage = "loaded", !.annotationPollInterval = TRUE]
  /\ toHost' = toHost \o (IF Len(overlay.annotations) = 0
                           THEN << Message("loaded"), Message("requestAnnotations") >>
                           ELSE << Message("loaded") >>)
  /\ UNCHANGED << host, toOverlay >>
  /\ UNCHANGED playerVars
  /\ UNCHANGED unitVars

\* The splat is loaded: 'loaded' and the first 'requestAnnotations' are
\* posted, the 500 ms interval is set.
OverlayLoaded ==
  /\ overlay.stage = "listening"
  /\ Len(toHost) + 2 <= MaxQueue
  /\ overlay' = [overlay EXCEPT !.stage = "loaded", !.annotationPollInterval = TRUE]
  /\ toHost' = toHost \o << Message("loaded"), Message("requestAnnotations") >>
  /\ UNCHANGED << host, toOverlay >>
  /\ UNCHANGED playerVars
  /\ UNCHANGED unitVars

\* Loading throws: the catch posts 'error'; no interval is set.
OverlayLoadFails ==
  /\ overlay.stage = "listening"
  /\ Len(toHost) < MaxQueue
  /\ overlay' = [overlay EXCEPT !.stage = "failed"]
  /\ toHost' = Append(toHost, Message("error"))
  /\ UNCHANGED << host, toOverlay >>
  /\ UNCHANGED playerVars
  /\ UNCHANGED unitVars

\* mutant: the listener takes the list and keeps its active id
OverlayListener_keepsActiveId ==
  /\ toOverlay # << >>
  /\ toOverlay' = Tail(toOverlay)
  /\ LET m == Head(toOverlay)
     IN  IF overlay.stage = "none"
         THEN UNCHANGED overlay
         ELSE \E threw \in BOOLEAN :
                /\ threw => Len(m.annotations) > 0
                /\ overlay' = [overlay EXCEPT
                     !.annotations = m.annotations,
                     !.annotationPollInterval =
                        IF ~threw /\ Len(m.annotations) > 0 /\ @ THEN FALSE ELSE @,
                     !.received = @ \/ Len(m.annotations) > 0,
                     !.redrawFailed = threw]
  /\ UNCHANGED << host, toHost >>
  /\ UNCHANGED playerVars
  /\ UNCHANGED unitVars

\* mutant: the listener leaves the interval to the next tick
OverlayListener_leavesInterval ==
  /\ toOverlay # << >>
  /\ toOverlay' = Tail(toOverlay)
  /\ LET m == Head(toOverlay)
     IN  IF overlay.stage = "none"
         THEN UNCHANGED overlay
         ELSE \E threw \in BOOLEAN :
                /\ threw => Len(m.annotations) > 0
                /\ overlay' = [overlay EXCEPT
                     !.annotations = m.annotations,
                     !.activeAnnotationId = m.activeAnnotationId,
                     !.received = @ \/ Len(m.annotations) > 0,
                     !.redrawFailed = threw]
  /\ UNCHANGED << host, toHost >>
  /\ UNCHANGED playerVars
  /\ UNCHANGED unitVars

\* The message at the head of the queue reaches the iframe window: without
\* a listener nothing happens; the listener replaces the working copy,
\* redraws the annotation layer and, with a non-empty list and the interval
\* set, clears the interval.  The redraw throws if an annotation of the
\* list is in the interior case of updateAnnotationPositions; the listener
\* ends there and the interval stays as it is.
OverlayListener ==
  /\ toOverlay # << >>
  /\ toOverlay' = Tail(toOverlay)
  /\ LET m == Head(toOverlay)
     IN  IF overlay.stage = "none"
         THEN UNCHANGED overlay
         ELSE \E threw \in BOOLEAN :
                /\ threw => Len(m.annotations) > 0
                /\ overlay' = [overlay EXCEPT
                     !.annotations = m.annotations,
                     !.activeAnnotationId = m.activeAnnotationId,
                     !.annotationPollInterval =
                        IF ~threw /\ Len(m.annotations) > 0 /\ @ THEN FALSE ELSE @,
                     !.received = @ \/ Len(m.annotations) > 0,
                     !.redrawFailed = threw]
  /\ UNCHANGED << host, toHost >>
  /\ UNCHANGED playerVars
  /\ UNCHANGED unitVars

\* A setEditMode message reaches the iframe window: without a listener
\* nothing happens; the listener assigns editMode (and shows or hides the
\* click hint).
OverlaySetEditMode ==
  /\ overlay.editInbox # << >>
  /\ overlay' = [overlay EXCEPT
       !.editInbox = Tail(@),
       !.editMode = IF overlay.stage = "none" THEN @ ELSE Head(overlay.editInbox)]
  /\ UNCHANGED << host, toOverlay, toHost >>
  /\ UNCHANGED playerVars
  /\ UNCHANGED unitVars

\* mutant: the interval gives up after one request
PollTick_cancelsAfterRequest ==
  /\ overlay.annotationPollInterval
  /\ IF Len(overlay.annotations) = 0
     THEN /\ Len(toHost) < MaxQueue
          /\ toHost' = Append(toHost, Message("requestAnnotations"))
          /\ overlay' = [overlay EXCEPT !.annotationPollInterval = FALSE]
     ELSE /\ overlay' = [overlay EXCEPT !.annotationPollInterval = FALSE]
          /\ UNCHANGED toHost
  /\ UNCHANGED << host, toOverlay >>
  /\ UNCHANGED playerVars
  /\ UNCHANGED unitVars

\* A tick of the 500 ms interval.
PollTick ==
  /\ overlay.annotationPollInterval
  /\ IF Len(overlay.annotations) = 0
     THEN /\ Len(toHost) < MaxQueue
          /\ toHost' = Append(toHost, Message("requestAnnotations"))
          /\ UNCHANGED overlay
     ELSE /\ overlay' = [overlay EXCEPT !.annotationPollInterval = FALSE]
          /\ UNCHANGED toHost
  /\ UNCHANGED << host, toOverlay >>
  /\ UNCHANGED playerVars
  /\ UNCHANGED unitVars

\* An animation frame of the loaded overlay that reports the camera.
OverlayCameraUpdate ==
  /\ overlay.stage = "loaded"
  /\ Len(toHost) < MaxQueue
  /\ toHost' = Append(toHost, Message("cameraUpdate"))
  /\ UNCHANGED << host, overlay, toOverlay >>
  /\ UNCHANGED playerVars
  /\ UNCHANGED unitVars

\* ------------------------------------------------------------------ Init
\* The page as mounted (the useState initial values), no progress stored
\* yet.
PageStart ==
  /\ dbProgress = NoProgress
  /\ edits = 0
  /\ authenticated \in BOOLEAN
  /\ session = FALSE
  /\ tutorial = NoTutorial
  /\ sortedAnnotations = sortedOf(NoTutorial)
  /\ world = FALSE
  /\ loading = TRUE
  /\ error = FALSE
  /\ fetchStage = "share"
  /\ currentStep = 0
  /\ completedSteps = {}
  /\ saving = FALSE
  /\ progressLoaded = FALSE
  /\ showWelcome = TRUE
  /\ cameraPosition = <<0, 0, 0>>
  /\ proximityWarning = NoWarning
  /\ warningTimers = 0
  /\ loads = 0
  /\ saves = << >>
  /\ redirects = 0

\* the tutorial as authored, and the page as mounted
PlayerInit ==
  /\ dbAnnotations \in InitialAnnotationLists
  /\ PageStart

\* the animate loop before the overlay runs
AnimationIdle ==
  /\ clock = 0
  /\ animation = [lastCameraUpdate |-> 0, frames |-> 0, sentAt |-> << >>]

NothingCalled == call = [op |-> "none"] /\ ret = [op |-> "none"]

Init == PlayerInit /\ ViewerIdle /\ AnimationIdle /\ NothingCalled

\* ----------------------------------------------- annotation routes (server)
\* POST: order is count + 1 only when omitted or null.
POST(rows, id, orderGiven, order) ==
  LET finalOrder == IF ~orderGiven THEN Len(rows) + 1 ELSE order
  IN  Append(rows, Ann(id, finalOrder))

\* PUT carrying only annotationId and order.
PUT(rows, annotationId, order) ==
  [i \in 1..Len(rows) |->
     IF rows[i].id = annotationId THEN [rows[i] EXCEPT !.order = order] ELSE rows[i]]

DELETE(rows, annotationId) ==
  SelectSeq(rows, LAMBDA r : r.id # annotationId)

RowIds(rows) == {rows[i].id : i \in 1..Len(rows)}

\* The player reads the table only in loadTutorial's fetch of /api/share, so
\* an edit made at any other moment is seen exactly as one made just before
\* the next fetch: the edits are taken while that fetch is outstanding.  A
\* request that leaves the table as it is (an id the tutorial does not have,
\* the order the row already has) is a stuttering step and is not counted.

ManagerPost ==
  /\ edits < MaxEdits
  /\ fetchStage = "share"
  /\ \E id \in Ids \ RowIds(dbAnnotations), orderGiven \in BOOLEAN, order \in Orders :
       /\ (~orderGiven => order = 0)
       /\ dbAnnotations' = POST(dbAnnotations, id, orderGiven, order)
  /\ dbAnnotations' # dbAnnotations
  /\ edits' = edits + 1
  /\ UNCHANGED << dbProgress, pageVars, currentStep, progressVars, warningVars >>
  /\ UNCHANGED viewerVars
  /\ UNCHANGED unitVars

ManagerPut ==
  /\ edits < MaxEdits
  /\ fetchStage = "share"
  /\ \E id \in Ids, order \in Orders :
       dbAnnotations' = PUT(dbAnnotations, id, order)
  /\ dbAnnotations' # dbAnnotations
  /\ edits' = edits + 1
  /\ UNCHANGED << dbProgress, pageVars, currentStep, progressVars, warningVars >>
  /\ UNCHANGED viewerVars
  /\ UNCHANGED unitVars

ManagerDelete ==
  /\ edits < MaxEdits
  /\ fetchStage = "share"
  /\ \E id \in Ids : dbAnnotations' = DELETE(dbAnnotations, id)
  /\ dbAnnotations' # dbAnnotations
  /\ edits' = edits + 1
  /\ UNCHANGED << dbProgress, pageVars, currentStep, progressVars, warningVars >>
  /\ UNCHANGED viewerVars
  /\ UNCHANGED unitVars

\* ------------------------------------------------------ page load (client)
RemoveAt(s, i) == SubSeq(s, 1, i - 1) \o SubSeq(s, i + 1, Len(s))

\* The loadProgress effect: runs after a render in which session, tutorial
\* or progressLoaded changed, and returns early unless all three allow it.
loadProgressIssues(sess, tut, loaded) == sess /\ tut.loaded /\ ~loaded

loadProgress(sess, tut, loaded) ==
  IF loadProgressIssues(sess, tut, loaded)
  THEN /\ pending < MaxPending
       /\ loads' = loads + 1
  ELSE loads' = loads

\* loadTutorial(), up to the answer of /api/share/<shareLink>.
TutorialFetched ==
  /\ fetchStage = "share"
  /\ \/ \* !res.ok, or the fetch throws
        /\ error' = TRUE /\ loading' = FALSE /\ fetchStage' = "done"
        /\ UNCHANGED << tutorial, sortedAnnotations, loads >>
     \/ \* tutorial without a workspace model
        /\ tutorial' = [loaded |-> TRUE, annotations |-> dbAnnotations]
        /\ sortedAnnotations' = sortedOf(tutorial')
        /\ loading' = FALSE /\ fetchStage' = "done"
        /\ loadProgress(session, tutorial', progressLoaded)
        /\ UNCHANGED error
     \/ \* tutorial with a workspace model: go on to fetch the world
        /\ tutorial' = [loaded |-> TRUE, annotations |-> dbAnnotations]
        /\ sortedAnnotations' = sortedOf(tutorial')
        /\ fetchStage' = "world"
        /\ loadProgress(session, tutorial', progressLoaded)
        /\ UNCHANGED << error, loading >>
  /\ UNCHANGED << serverVars, redirects, authenticated, session, world, progressLoaded,
                  showWelcome, cameraPosition, currentStep, progressVars,
                  warningVars >>
  /\ UNCHANGED viewerVars
  /\ UNCHANGED unitVars

\* loadTutorial(), the answer of /api/world/<modelUuid>.
WorldFetched ==
  /\ fetchStage = "world"
  /\ \/ world' = TRUE /\ UNCHANGED error
     \/ UNCHANGED << world, error >>
     \/ error' = TRUE /\ UNCHANGED world
  /\ loading' = FALSE
  /\ fetchStage' = "done"
  /\ UNCHANGED << serverVars, redirects, authenticated, session, tutorial, sortedAnnotations,
                  progressLoaded,
                  showWelcome, cameraPosition, loads, currentStep, progressVars,
                  warningVars >>
  /\ UNCHANGED viewerVars
  /\ UNCHANGED unitVars

\* useSession() delivers the session of a logged-in learner.
SessionAvailable ==
  /\ fetchStage \notin { "left", "unmounted" }
  /\ authenticated /\ ~session
  /\ session' = TRUE
  /\ loadProgress(session', tutorial, progressLoaded)
  /\ UNCHANGED << serverVars, redirects, authenticated, tutorial, sortedAnnotations, world, loading, error,
                  fetchStage, progressLoaded, showWelcome, cameraPosition,
                  currentStep, progressVars, warningVars >>
  /\ UNCHANGED viewerVars
  /\ UNCHANGED unitVars

\* useSession() delivers a new session object for the same learner (the
\* session is fetched again): the loadProgress effect runs again.
SessionRefreshed ==
  /\ session
  /\ loadProgress(session, tutorial, progressLoaded)
  /\ UNCHANGED << serverVars, redirects, authenticated, session, tutorial, sortedAnnotations, world,
                  loading, error, fetchStage, progressLoaded, showWelcome,
                  cameraPosition, currentStep, progressVars, warningVars >>
  /\ UNCHANGED viewerVars
  /\ UNCHANGED unitVars

\* What loadProgress() puts into completedSteps for an answer of
\* GET /api/progress (ok: the status; stored: the record the server holds).
hydrate(ok, stored) ==
  IF ok /\ stored.exists THEN stored.completedAnnotations ELSE completedSteps

\* loadProgress(), the fetch answers.
LoadResolved ==
  /\ loads > 0
  /\ loads' = loads - 1
  /\ \E ok \in BOOLEAN : completedSteps' = hydrate(ok, dbProgress)
  /\ progressLoaded' = TRUE
  /\ UNCHANGED << serverVars, redirects, authenticated, session, tutorial, sortedAnnotations,
                  world, loading,
                  error, fetchStage, showWelcome, cameraPosition, currentStep,
                  saving, saves, warningVars >>
  /\ UNCHANGED viewerVars
  /\ UNCHANGED unitVars

\* loadProgress(), the fetch rejects: logged, progressLoaded stays false.
LoadFailed ==
  /\ loads > 0
  /\ loads' = loads - 1
  /\ UNCHANGED << serverVars, redirects, authenticated, session, tutorial, sortedAnnotations,
                  world, loading,
                  error, fetchStage, progressLoaded, showWelcome,
                  cameraPosition, currentStep, progressVars, warningVars >>
  /\ UNCHANGED viewerVars
  /\ UNCHANGED unitVars

\* The learner reloads the page: a new mount.  Requests of the old page that
\* the server has not served yet are aborted with it.
Reload ==
  /\ session' = FALSE
  /\ tutorial' = NoTutorial
  /\ sortedAnnotations' = sortedOf(NoTutorial)
  /\ world' = FALSE
  /\ loading' = TRUE
  /\ error' = FALSE
  /\ fetchStage' = "share"
  /\ currentStep' = 0
  /\ completedSteps' = {}
  /\ saving' = FALSE
  /\ progressLoaded' = FALSE
  /\ showWelcome' = TRUE
  /\ cameraPosition' = <<0, 0, 0>>
  /\ proximityWarning' = NoWarning
  /\ warningTimers' = 0
  /\ loads' = 0
  /\ saves' = << >>
  /\ redirects' = 0
  /\ UNCHANGED << serverVars, authenticated >>
  /\ UNCHANGED viewerVars
  /\ UNCHANGED unitVars

\* ------------------------------------------------------------ saveProgress
\* mutant: isComplete computed from the set of the render, not the new one
SaveRequest_countsOldSet(newCompletedSteps) ==
  [completedAnnotations |-> newCompletedSteps,
   completed |-> (Cardinality(completedSteps) = stepCount)]

SaveRequest(newCompletedSteps) ==
  [completedAnnotations |-> newCompletedSteps,
   completed |-> (Cardinality(newCompletedSteps) = stepCount)]

\* mutant: the request is sent without a session too
saveProgress_noSessionCheck(newCompletedSteps) ==
  IF ~tutorial.loaded
  THEN UNCHANGED << saves, saving >>
  ELSE /\ pending < MaxPending
       /\ saving' = TRUE
       /\ saves' = Append(saves, SaveRequest(newCompletedSteps))

\* saveProgress(), up to the await of the POST.
saveProgress(newCompletedSteps) ==
  IF ~session \/ ~tutorial.loaded
  THEN UNCHANGED << saves, saving >>
  ELSE /\ pending < MaxPending
       /\ saving' = TRUE
       /\ saves' = Append(saves, SaveRequest(newCompletedSteps))

\* POST /api/progress stores the posted set.
StoreProgress(request) ==
  [exists |-> TRUE, completedAnnotations |-> request.completedAnnotations]

\* everything of the page but what the end of saveProgress() touches
savedPageVars == << authenticated, session, tutorial, sortedAnnotations, world, loading,
                    error, fetchStage, progressLoaded, showWelcome, cameraPosition,
                    loads >>

\* saveProgress(), the POST answers (with the set stored, or with an error
\* status and nothing stored; the status is not looked at): the redirect to
\* /dashboard is scheduled when isComplete; finally.
SaveSettled ==
  /\ \E i \in 1..Len(saves) :
       /\ \/ dbProgress' = StoreProgress(saves[i])
          \/ dbProgress' = dbProgress
       /\ saves' = RemoveAt(saves, i)
       /\ redirects' = IF saves[i].completed THEN redirects + 1 ELSE redirects
  /\ saving' = FALSE
  /\ UNCHANGED << dbAnnotations, edits, savedPageVars, currentStep, completedSteps,
                  warningVars >>
  /\ UNCHANGED viewerVars
  /\ UNCHANGED unitVars

\* mutant: the catch takes the last added id back
SaveFailed_rollsBack ==
  /\ \E i \in 1..Len(saves) :
       /\ dbProgress' = dbProgress
       /\ saves' = RemoveAt(saves, i)
       /\ completedSteps' = dbProgress.completedAnnotations
  /\ saving' = FALSE
  /\ UNCHANGED << dbAnnotations, edits, pageVars, currentStep, warningVars >>
  /\ UNCHANGED viewerVars
  /\ UNCHANGED unitVars

\* saveProgress(), the POST rejects, before or after the server stored the
\* set: catch, finally.
SaveFailed ==
  /\ \E i \in 1..Len(saves) :
       /\ \/ dbProgress' = StoreProgress(saves[i])
          \/ dbProgress' = dbProgress
       /\ saves' = RemoveAt(saves, i)
  /\ saving' = FALSE
  /\ UNCHANGED << dbAnnotations, edits, pageVars, currentStep, completedSteps,
                  warningVars >>
  /\ UNCHANGED viewerVars
  /\ UNCHANGED unitVars

\* setTimeout(() => { window.location.href = "/dashboard" }, 2000) comes
\* due: the browser leaves the page.
RedirectFires ==
  /\ redirects > 0
  /\ session' = FALSE
  /\ tutorial' = NoTutorial
  /\ sortedAnnotations' = sortedOf(NoTutorial)
  /\ world' = FALSE
  /\ loading' = TRUE
  /\ error' = FALSE
  /\ fetchStage' = "left"
  /\ currentStep' = 0
  /\ completedSteps' = {}
  /\ saving' = FALSE
  /\ progressLoaded' = FALSE
  /\ showWelcome' = TRUE
  /\ cameraPosition' = <<0, 0, 0>>
  /\ proximityWarning' = NoWarning
  /\ warningTimers' = 0
  /\ loads' = 0
  /\ saves' = << >>
  /\ redirects' = 0
  /\ UNCHANGED << serverVars, authenticated >>
  /\ UNCHANGED viewerVars
  /\ UNCHANGED unitVars

\* The learner follows a <Link> of the page (the logo to "/", or the link of
\* the error view): the router unmounts the player and the viewer in it.
\* The effect cleanups run, the viewer's message listener and backoff
\* timers go and the iframe is removed; the component state is released.
\* The timers markComplete and saveProgress have set and the requests in
\* flight have no cleanup and stay pending.
Unmount ==
  /\ fetchStage = "done" /\ ~loading
  /\ fetchStage' = "unmounted"
  /\ session' = FALSE
  /\ tutorial' = NoTutorial
  /\ sortedAnnotations' = sortedOf(NoTutorial)
  /\ world' = FALSE
  /\ loading' = TRUE
  /\ error' = FALSE
  /\ currentStep' = 0
  /\ completedSteps' = {}
  /\ saving' = FALSE
  /\ progressLoaded' = FALSE
  /\ showWelcome' = TRUE
  /\ cameraPosition' = <<0, 0, 0>>
  /\ proximityWarning' = NoWarning
  /\ host' = HostUnmounted
  /\ overlay' = NoOverlay
  /\ toOverlay' = << >>
  /\ toHost' = << >>
  /\ UNCHANGED << serverVars, authenticated, warningTimers, redirects, saves, loads >>
  /\ UNCHANGED unitVars

\* ------------------------------------------------------------ markComplete
\* mutant: the sequential check left out
markCompleteResult_noSequentialGate ==
  IF ~hasCurrentAnnotation THEN "no annotation"
  ELSE IF currentAnnotation.id \in completedSteps THEN "already completed"
  ELSE IF ~isNearCurrentAnnotation THEN "proximity"
  ELSE "completed"

\* mutant: the already-completed check left out
markCompleteResult_noAlreadyCheck ==
  IF ~hasCurrentAnnotation THEN "no annotation"
  ELSE IF nextRequiredStep # -1 /\ currentStep # nextRequiredStep THEN "sequential"
  ELSE IF ~isNearCurrentAnnotation THEN "proximity"
  ELSE "completed"

\* mutant: the proximity check moved to the front
markCompleteResult_proximityFirst ==
  IF ~hasCurrentAnnotation THEN "no annotation"
  ELSE IF ~isNearCurrentAnnotation THEN "proximity"
  ELSE IF currentAnnotation.id \in completedSteps THEN "already completed"
  ELSE IF nextRequiredStep # -1 /\ currentStep # nextRequiredStep THEN "sequential"
  ELSE "completed"

\* Which return of markComplete is taken.
markCompleteResult ==
  IF ~hasCurrentAnnotation THEN "no annotation"
  ELSE IF currentAnnotation.id \in completedSteps THEN "already completed"
  ELSE IF nextRequiredStep # -1 /\ currentStep # nextRequiredStep THEN "sequential"
  ELSE IF ~isNearCurrentAnnotation THEN "proximity"
  ELSE "completed"

\* setProximityWarning(message); setTimeout(() => setProximityWarning(null), 2000)
warn(message) ==
  /\ pending < MaxPending
  /\ proximityWarning' = message
  /\ warningTimers' = warningTimers + 1
  /\ UNCHANGED << currentStep, progressVars >>

\* mutant: the save is handed the set as it was before the step was added
markComplete_savesOldSet ==
  LET result == markCompleteResult
  IN  CASE result = "no annotation" ->
             UNCHANGED << currentStep, progressVars, warningVars >>
        [] result = "already completed" ->
             warn(AlreadyCompletedWarning)
        [] result = "sequential" ->
             warn(SequentialWarning(nextRequiredStep + 1))
        [] result = "proximity" ->
             warn(ProximityWarningText)
        [] OTHER ->
             LET newCompleted == completedSteps \cup {currentAnnotation.id}
             IN  /\ completedSteps' = newCompleted
                 /\ saveProgress(completedSteps)
                 /\ proximityWarning' = NoWarning
                 /\ currentStep' = IF currentStep < stepCount - 1
                                   THEN currentStep + 1
                                   ELSE currentStep
                 /\ UNCHANGED warningTimers

markComplete ==
  LET result == markCompleteResult
  IN  CASE result = "no annotation" ->
             UNCHANGED << currentStep, progressVars, warningVars >>
        [] result = "already completed" ->
             warn(AlreadyCompletedWarning)
        [] result = "sequential" ->
             warn(SequentialWarning(nextRequiredStep + 1))
        [] result = "proximity" ->
             warn(ProximityWarningText)
        [] OTHER ->
             LET newCompleted == completedSteps \cup {currentAnnotation.id}
             IN  /\ completedSteps' = newCompleted
                 /\ saveProgress(newCompleted)
                 /\ proximityWarning' = NoWarning
                 /\ currentStep' = IF currentStep < stepCount - 1
                                   THEN currentStep + 1
                                   ELSE currentStep
                 /\ UNCHANGED warningTimers

\* setTimeout(() => setProximityWarning(null), 2000) comes due.
WarningTimerFires ==
  /\ warningTimers > 0
  /\ warningTimers' = warningTimers - 1
  /\ proximityWarning' = NoWarning
  /\ UNCHANGED << serverVars, pageVars, currentStep, progressVars >>
  /\ UNCHANGED viewerVars
  /\ UNCHANGED unitVars

\* ---------------------------------------------------------------- handlers
Keys == {"ArrowRight", "ArrowDown", "ArrowLeft", "ArrowUp", "Enter", " ", "Tab"}

NextKeys == {"ArrowRight", "ArrowDown"}
PreviousKeys == {"ArrowLeft", "ArrowUp"}
CompleteKeys == {"Enter", " "}

\* mutant: ArrowRight / ArrowDown without the bound check
handleKeyDown_unclampedNext(key) ==
  IF showWelcome
  THEN UNCHANGED << currentStep, progressVars, warningVars >>
  ELSE CASE key \in NextKeys ->
              /\ currentStep' = currentStep + 1
              /\ UNCHANGED << progressVars, warningVars >>
         [] key \in PreviousKeys ->
              /\ currentStep' = IF currentStep > 0
                                THEN currentStep - 1
                                ELSE currentStep
              /\ UNCHANGED << progressVars, warningVars >>
         [] key \in CompleteKeys -> markComplete
         [] OTHER -> UNCHANGED << currentStep, progressVars, warningVars >>

\* The window keydown listener.
handleKeyDown(key) ==
  IF showWelcome
  THEN UNCHANGED << currentStep, progressVars, warningVars >>
  ELSE CASE key \in NextKeys ->
              /\ currentStep' = IF currentStep < stepCount - 1
                                THEN currentStep + 1
                                ELSE currentStep
              /\ UNCHANGED << progressVars, warningVars >>
         [] key \in PreviousKeys ->
              /\ currentStep' = IF currentStep > 0
                                THEN currentStep - 1
                                ELSE currentStep
              /\ UNCHANGED << progressVars, warningVars >>
         [] key \in CompleteKeys -> markComplete
         [] OTHER -> UNCHANGED << currentStep, progressVars, warningVars >>

KeyDown ==
  /\ \E key \in Keys : handleKeyDown(key)
  /\ UNCHANGED << serverVars, pageVars >>
  /\ UNCHANGED viewerVars
  /\ UNCHANGED unitVars

\* mutant: steps beyond the next required one are locked
goToStep_gated(index) ==
  /\ (nextRequiredStep = -1 \/ index <= nextRequiredStep)
  /\ currentStep' = index
  /\ UNCHANGED << progressVars, warningVars >>

\* goToStep(index)
goToStep(index) ==
  /\ currentStep' = index
  /\ UNCHANGED << progressVars, warningVars >>

\* The step list: one button per sorted annotation, onClick goToStep(index).
StepButton ==
  /\ playerRendered
  /\ \E index \in 0..(stepCount - 1) : goToStep(index)
  /\ UNCHANGED << serverVars, pageVars >>
  /\ UNCHANGED viewerVars
  /\ UNCHANGED unitVars

Max(a, b) == IF a > b THEN a ELSE b

\* onClick of the Previous button
previousClick ==
  /\ currentStep' = Max(0, currentStep - 1)
  /\ UNCHANGED << progressVars, warningVars >>

\* Previous button, disabled at step 0.
PreviousButton ==
  /\ playerRendered
  /\ ~(currentStep = 0)
  /\ previousClick
  /\ UNCHANGED << serverVars, pageVars >>
  /\ UNCHANGED viewerVars
  /\ UNCHANGED unitVars

\* completedSteps.has(currentAnnotation?.id || "")
currentIsCompleted ==
  hasCurrentAnnotation /\ currentAnnotation.id \in completedSteps

\* onClick of the Next Step button
nextClick ==
  /\ currentStep' = IF currentStep < stepCount - 1 THEN currentStep + 1 ELSE currentStep
  /\ UNCHANGED << progressVars, warningVars >>

\* Next Step button: shown for a completed current step, disabled at the end.
NextButton ==
  /\ playerRendered
  /\ currentIsCompleted
  /\ ~(currentStep >= stepCount - 1)
  /\ nextClick
  /\ UNCHANGED << serverVars, pageVars >>
  /\ UNCHANGED viewerVars
  /\ UNCHANGED unitVars

\* Mark Complete button: shown for a step not completed, disabled when far
\* or out of order.
MarkCompleteButton ==
  /\ playerRendered
  /\ ~currentIsCompleted
  /\ ~(~isNearCurrentAnnotation \/ (nextRequiredStep # -1 /\ currentStep # nextRequiredStep))
  /\ markComplete
  /\ UNCHANGED << serverVars, pageVars >>
  /\ UNCHANGED viewerVars
  /\ UNCHANGED unitVars

\* onAnnotationClick(ann), for an annotationClick message of the overlay.
onAnnotationClick(id) ==
  LET index == findIndex([i \in 1..Len(sortedAnnotations) |->
                            sortedAnnotations[i].id = id])
  IN  /\ currentStep' = IF index # -1 THEN index ELSE currentStep
      /\ UNCHANGED << progressVars, warningVars >>

AnnotationClick ==
  /\ playerRendered
  /\ \E id \in Ids : onAnnotationClick(id)
  /\ UNCHANGED << serverVars, pageVars >>
  /\ UNCHANGED viewerVars
  /\ UNCHANGED unitVars

\* cameraUpdate message of the overlay: onCameraMove = setCameraPosition.
CameraUpdate ==
  /\ playerRendered
  /\ \E position \in CameraPositions : cameraPosition' = position
  /\ UNCHANGED << serverVars, redirects, authenticated, session, tutorial, sortedAnnotations,
                  world, loading,
                  error, fetchStage, progressLoaded, showWelcome, loads,
                  currentStep, progressVars, warningVars >>
  /\ UNCHANGED viewerVars
  /\ UNCHANGED unitVars

\* Start Tutorial button of the welcome popup.
DismissWelcome ==
  /\ playerRendered /\ showWelcome
  /\ showWelcome' = FALSE
  /\ UNCHANGED << serverVars, redirects, authenticated, session, tutorial, sortedAnnotations,
                  world, loading,
                  error, fetchStage, progressLoaded, cameraPosition, loads,
                  currentStep, progressVars, warningVars >>
  /\ UNCHANGED viewerVars
  /\ UNCHANGED unitVars

Next ==
  \/ ManagerPost \/ ManagerPut \/ ManagerDelete
  \/ TutorialFetched \/ WorldFetched \/ SessionAvailable \/ SessionRefreshed
  \/ LoadResolved \/ LoadFailed \/ Reload
  \/ SaveSettled \/ SaveFailed \/ RedirectFires
  \/ WarningTimerFires
  \/ KeyDown \/ StepButton \/ PreviousButton \/ NextButton \/ MarkCompleteButton
  \/ AnnotationClick \/ CameraUpdate \/ DismissWelcome

Spec == Init /\ [][Next]_vars

\* The player over annotation tables with equal order values; nobody edits
\* the table meanwhile.
SortTables ==
  { << Ann("a", 3), Ann("b", 1), Ann("c", 2) >>,
    << Ann("a", 1), Ann("b", 1), Ann("c", 0) >>,
    << Ann("a", 2), Ann("b", 2), Ann("c", 2) >> }

SortInit ==
  /\ dbAnnotations \in SortTables
  /\ PageStart /\ ViewerIdle /\ AnimationIdle /\ NothingCalled

SortNext ==
  \/ TutorialFetched \/ WorldFetched \/ SessionAvailable \/ SessionRefreshed
  \/ LoadResolved \/ LoadFailed \/ Reload
  \/ SaveSettled \/ SaveFailed \/ RedirectFires
  \/ WarningTimerFires
  \/ KeyDown \/ StepButton \/ PreviousButton \/ NextButton \/ MarkCompleteButton
  \/ AnnotationClick \/ CameraUpdate \/ DismissWelcome

SortSpec == SortInit /\ [][SortNext]_vars

\* The player with the learner free to leave it by a link of the page.
TeardownNext ==
  \/ TutorialFetched \/ WorldFetched \/ SessionAvailable \/ SessionRefreshed
  \/ LoadResolved \/ LoadFailed \/ Reload
  \/ SaveSettled \/ SaveFailed \/ RedirectFires
  \/ WarningTimerFires
  \/ KeyDown \/ StepButton \/ PreviousButton \/ NextButton \/ MarkCompleteButton
  \/ AnnotationClick \/ CameraUpdate \/ DismissWelcome
  \/ Unmount

TeardownSpec == Init /\ [][TeardownNext]_vars

\* The viewer and its overlay on their own: the page around them stands
\* still, the viewer is given any list and any active id.
ViewerNext ==
  \/ ViewerMount \/ HostPropsChange \/ ParentRerender \/ BackoffTimerFires
  \/ handleMessage
  \/ OverlayScriptStarts \/ OverlayLoaded \/ OverlayLoadFails
  \/ OverlayListener \/ OverlaySetEditMode \/ PollTick \/ OverlayCameraUpdate

\* one page around the viewer is enough: nothing of it is read here
ViewerInit == Init /\ ~authenticated /\ dbAnnotations = << >>

ViewerSpec == ViewerInit /\ [][ViewerNext]_vars

\* The event loops of both windows: a posted message is dispatched, a due
\* timer fires, an interval keeps ticking.
FairViewerSpec ==
  /\ ViewerSpec
  /\ SF_vars(handleMessage)
  /\ SF_vars(OverlayListener)
  /\ SF_vars(PollTick)

\* The viewer on a page that switches editMode: the list and the active id
\* stay as mounted.
EditNext ==
  \/ EditorMount \/ EditModeChange \/ BackoffTimerFires \/ handleMessage
  \/ OverlayScriptStarts \/ OverlayLoaded \/ OverlayLoadFails
  \/ OverlayListener \/ OverlaySetEditMode \/ PollTick

EditSpec == ViewerInit /\ [][EditNext]_vars

FairEditSpec ==
  /\ EditSpec
  /\ SF_vars(handleMessage)
  /\ SF_vars(OverlayListener)
  /\ SF_vars(OverlaySetEditMode)
  /\ SF_vars(PollTick)

\* ------------------------------------------------------- the animate loop
\* Time between two animation frames, in ms: a 60 Hz frame, the rest to
\* 100 ms, a slow frame of exactly 100 ms and one just above.
FrameGaps == { 16, 84, 100, 101 }

\* Date.now() at the first frame: any time long after the epoch.
ClockStarts == { 1000, 1050 }

\* mutant: a frame 100 ms after the last report reports again
animate_inclusive ==
  /\ animation.frames < MaxFrames
  /\ \E gap \in FrameGaps, throws \in BOOLEAN :
       LET now == IF animation.frames = 0 THEN clock ELSE clock + gap
       IN  /\ clock' = now
           /\ animation' =
                IF ~throws /\ now - animation.lastCameraUpdate >= 100
                THEN [lastCameraUpdate |-> now,
                      frames |-> animation.frames + 1,
                      sentAt |-> IF animation.sentAt = << >> THEN << now >>
                                 ELSE << animation.sentAt[Len(animation.sentAt)], now >>]
                ELSE [animation EXCEPT !.frames = @ + 1]
  /\ UNCHANGED << playerVars, viewerVars, call, ret >>

\* animate(): the next frame is requested, the scene is rendered, the
\* annotation layer is redrawn (updateAnnotationPositions, which can throw,
\* and then the rest of the frame is skipped), and the camera is reported
\* if more than 100 ms have passed on Date.now() since the last report.
\* sentAt keeps the Date.now() of the last two reports.
animate ==
  /\ animation.frames < MaxFrames
  /\ \E gap \in FrameGaps, throws \in BOOLEAN :
       LET now == IF animation.frames = 0 THEN clock ELSE clock + gap
       IN  /\ clock' = now
           /\ animation' =
                IF ~throws /\ now - animation.lastCameraUpdate > 100
                THEN [lastCameraUpdate |-> now,
                      frames |-> animation.frames + 1,
                      sentAt |-> IF animation.sentAt = << >> THEN << now >>
                                 ELSE << animation.sentAt[Len(animation.sentAt)], now >>]
                ELSE [animation EXCEPT !.frames = @ + 1]
  /\ UNCHANGED << playerVars, viewerVars, call, ret >>

AnimateInit ==
  /\ PlayerInit /\ ~authenticated /\ dbAnnotations = << >>
  /\ ViewerIdle /\ NothingCalled
  /\ clock \in ClockStarts
  /\ animation = [lastCameraUpdate |-> 0, frames |-> 0, sentAt |-> << >>]

AnimateNext == animate

AnimateSpec == AnimateInit /\ [][AnimateNext]_vars

\* ------------------------------------------- updateAnnotationPositions
\* Projected coordinates (pos.x, pos.y, pos.z after pos.project(camera)) are
\* kept in tenths, so that -1, 1 and 1.1 are -10, 10 and 11; the viewport
\* sizes are multiples of 20 pixels, which keeps every pixel value below an
\* integer: (pos.x * 0.5 + 0.5) * width = (nx + 10) * width / 20.
NdcValues == { -14, -12, -11, -7, -6, 0, 6, 7, 11, 12, 14 }
DepthValues == { 0, 10, 11 }
Viewports == { << 400, 200 >>, << 100, 200 >>, << 400, 100 >> }

Projected(nx, ny, nz) == [x |-> nx, y |-> ny, z |-> nz]

screenX(pos, width) == ((pos.x + 10) * width) \div 20
screenY(pos, height) == ((10 - pos.y) * height) \div 20

isBehind(pos) == pos.z > 10

isOffScreen(pos, width, height) ==
  \/ isBehind(pos)
  \/ screenX(pos, width) < -20
  \/ screenX(pos, width) > width + 20
  \/ screenY(pos, height) < -20
  \/ screenY(pos, height) > height + 20

\* flippedX = -pos.x, then the same formula as screenX
edgeX(pos, width) ==
  IF isBehind(pos) THEN ((10 - pos.x) * width) \div 20 ELSE screenX(pos, width)

edgeY(pos, height) ==
  IF isBehind(pos) THEN ((10 + pos.y) * height) \div 20 ELSE screenY(pos, height)

Min(a, b) == IF a <= b THEN a ELSE b

\* Math.max(padding, Math.min(dimension - padding, edge)), padding = 60
clamped(edge, dimension) == Max(60, Min(dimension - 60, edge))

\* mutant: the vertical edges are looked at first
direction_verticalFirst(pos, width, height) ==
  IF edgeY(pos, height) <= 60 THEN "top"
  ELSE IF edgeY(pos, height) >= height - 60 THEN "bottom"
  ELSE IF edgeX(pos, width) <= 60 THEN "left"
  ELSE IF edgeX(pos, width) >= width - 60 THEN "right"
  ELSE ""

direction(pos, width, height) ==
  IF edgeX(pos, width) <= 60 THEN "left"
  ELSE IF edgeX(pos, width) >= width - 60 THEN "right"
  ELSE IF edgeY(pos, height) <= 60 THEN "top"
  ELSE IF edgeY(pos, height) >= height - 60 THEN "bottom"
  ELSE ""

\* the element the loop body builds for the annotation at index i
element(pos, i, width, height) ==
  IF ~isOffScreen(pos, width, height)
  THEN [kind |-> "marker", index |-> i, direction |-> "",
        left |-> screenX(pos, width), top |-> screenY(pos, height)]
  ELSE LET dir == direction(pos, width, height)
           cx == clamped(edgeX(pos, width), width)
           cy == clamped(edgeY(pos, height), height)
       IN  [kind |-> "indicator", index |-> i, direction |-> dir,
            left |-> CASE dir = "left" -> 60
                       [] dir = "right" -> width - 60
                       [] OTHER -> cx,
            top |-> CASE dir = "top" -> 60
                      [] dir = "bottom" -> height - 60
                      [] dir \in { "left", "right" } -> cy
                      [] OTHER -> cy]

\* indicator.classList.add(direction) with direction = '' throws a
\* SyntaxError (an empty token), before the indicator is appended.
throwsAt(pos, width, height) ==
  isOffScreen(pos, width, height) /\ direction(pos, width, height) = ""

\* updateAnnotationPositions(): returns at once without camera and
\* renderer; else empties the container and appends one element per
\* annotation in list order, until the loop body throws.
updateAnnotationPositions(c) ==
  IF ~c.sceneReady
  THEN [op |-> "updateAnnotationPositions", elements |-> << >>, threw |-> FALSE]
  ELSE LET w == c.viewport[1]
           h == c.viewport[2]
           bad == { i \in 1..Len(c.annotations) : throwsAt(c.annotations[i], w, h) }
           last == IF bad = {} THEN Len(c.annotations)
                   ELSE (CHOOSE i \in bad : \A j \in bad : i <= j) - 1
       IN  [op |-> "updateAnnotationPositions",
            elements |-> [i \in 1..last |-> element(c.annotations[i], i, w, h)],
            threw |-> bad # {}]

\* The lists drawn: one annotation anywhere, alone or followed by one in
\* the middle of the screen.
ProjectedPoints ==
  { Projected(nx, ny, nz) : nx \in NdcValues, ny \in NdcValues, nz \in DepthValues }

RenderCalls ==
  { [op |-> "updateAnnotationPositions", sceneReady |-> ready, viewport |-> v,
     annotations |-> list] :
       ready \in BOOLEAN, v \in Viewports,
       list \in { << p >> : p \in ProjectedPoints }
                \cup { << p, Projected(0, 0, 0) >> : p \in ProjectedPoints } }

Render ==
  /\ call.op = "updateAnnotationPositions"
  /\ ret.op = "none"
  /\ ret' = updateAnnotationPositions(call)
  /\ UNCHANGED << playerVars, viewerVars, clock, animation, call >>

\* ------------------------------------------------------ dblclick (overlay)
Vec(a, b, c) == << a, b, c >>
VecAdd(u, v) == << u[1] + v[1], u[2] + v[2], u[3] + v[3] >>
VecScale(u, k) == << u[1] * k, u[2] * k, u[3] * k >>

\* raycaster.ray after setFromCamera: origin and unit direction
Rays ==
  { [origin |-> o, direction |-> d] :
      o \in { Vec(0, 0, 5), Vec(1, 2, 3) },
      d \in { Vec(0, 0, -1), Vec(1, 0, 0), Vec(0, -1, 0) } }

\* what raycaster.intersectObject(splatMesh, false) does: it returns the
\* intersections nearest first, returns none, or throws
Raycasts ==
  { [outcome |-> "hits", intersects |-> h] :
      h \in { << Vec(0, 0, 1) >>, << Vec(2, 2, 2), Vec(4, 4, 4) >> } }
  \cup { [outcome |-> "none", intersects |-> << >>],
         [outcome |-> "throws", intersects |-> << >>] }

PlacementCalls ==
  { [op |-> "dblclick", editMode |-> e, ray |-> r, raycast |-> c] :
      e \in BOOLEAN, r \in Rays, c \in Raycasts }

\* mutant: a raycast that throws places nothing
dblclick_noCatch(c) ==
  IF ~c.editMode \/ c.raycast.outcome = "throws"
  THEN [op |-> "dblclick", posted |-> << >>]
  ELSE LET fallbackDistance == 3
           point == IF c.raycast.outcome = "hits" /\ Len(c.raycast.intersects) > 0
                    THEN c.raycast.intersects[1]
                    ELSE VecAdd(c.ray.origin, VecScale(c.ray.direction, fallbackDistance))
       IN  [op |-> "dblclick",
            posted |-> << [type |-> "addAnnotation", position |-> point] >>]

\* the dblclick listener of the canvas
dblclick(c) ==
  IF ~c.editMode
  THEN [op |-> "dblclick", posted |-> << >>]
  ELSE LET fallbackDistance == 3
           point == IF c.raycast.outcome = "hits" /\ Len(c.raycast.intersects) > 0
                    THEN c.raycast.intersects[1]
                    ELSE VecAdd(c.ray.origin, VecScale(c.ray.direction, fallbackDistance))
       IN  [op |-> "dblclick",
            posted |-> << [type |-> "addAnnotation", position |-> point] >>]

DoubleClick ==
  /\ call.op = "dblclick"
  /\ ret.op = "none"
  /\ ret' = dblclick(call)
  /\ UNCHANGED << playerVars, viewerVars, clock, animation, call >>

\* ------------------------------------- annotation routes, with all fields
\* JSON values of a request body and of a stored column
Omitted == [type |-> "undefined", num |-> 0, str |-> ""]
Null == [type |-> "null", num |-> 0, str |-> ""]
Num(n) == [type |-> "number", num |-> n, str |-> ""]
Str(t) == [type |-> "string", num |-> 0, str |-> t]

Row(id, tid, title, x, order, imageUrl) ==
  [id |-> id, tutorialId |-> tid, title |-> Str(title), content |-> Str(""),
   x |-> Num(x), y |-> Num(2), z |-> Num(3), order |-> Num(order),
   imageUrl |-> imageUrl, updatedAt |-> "created"]

\* annotation tables: rows of the addressed tutorial t1 and one of another
RouteTables ==
  { << Row("r9", "t2", "other", 8, 1, Null) >>,
    << Row("r1", "t1", "first", 4, 1, Str("img1")), Row("r9", "t2", "other", 8, 1, Null) >>,
    << Row("r1", "t1", "first", 4, 2, Str("img1")), Row("r9", "t2", "other", 8, 1, Null),
       Row("r2", "t1", "second", 5, 1, Null) >> }

PostBodies ==
  { [title |-> t, content |-> c, x |-> x, y |-> Num(0), z |-> Num(0),
     order |-> o, imageUrl |-> i] :
      t \in { Omitted, Str(""), Str("T") }, c \in { Omitted, Str("C") },
      x \in { Omitted, Num(0) },
      o \in { Omitted, Null, Num(0), Num(1), Num(5) }, i \in { Omitted, Str("img") } }

PutBodies ==
  { [annotationId |-> a, title |-> t, content |-> c, x |-> x, y |-> y, z |-> Omitted,
     order |-> o, imageUrl |-> i] :
      a \in { "", "r1", "r2", "r9" },
      t \in { Omitted, Str("T2") }, c \in { Omitted, Str("C2") },
      x \in { Omitted, Num(9) }, y \in { Omitted, Num(7) },
      o \in { Omitted, Num(0), Num(7) }, i \in { Omitted, Null, Str("img2") } }

\* annotationId of the query string of a DELETE; "" when it is not given
DeleteIds == { "", "r1", "r2", "r9" }

\* malformed: the body is not JSON, request.json() rejects
RouteCalls ==
  { [op |-> "POST", session |-> s, tutorialId |-> "t1", table |-> tb,
     malformed |-> FALSE, body |-> b] :
      s \in BOOLEAN, tb \in RouteTables, b \in PostBodies }
  \cup
  { [op |-> "PUT", session |-> s, tutorialId |-> "t1", table |-> tb,
     malformed |-> FALSE, body |-> b] :
      s \in BOOLEAN, tb \in RouteTables, b \in PutBodies }
  \cup
  { [op |-> o, session |-> s, tutorialId |-> "t1", table |-> tb,
     malformed |-> TRUE, body |-> Omitted] :
      o \in { "POST", "PUT" }, s \in BOOLEAN, tb \in RouteTables }
  \cup
  { [op |-> "DELETE", session |-> s, tutorialId |-> "t1", table |-> tb,
     annotationId |-> a] :
      s \in BOOLEAN, tb \in RouteTables, a \in DeleteIds }
  \cup
  { [op |-> "GET", session |-> s, tutorialId |-> "t1", table |-> tb] :
      s \in BOOLEAN, tb \in RouteTables }

\* What a handler has done when it returns: the status of the response,
\* the table after it, whether it has read the body and whether it has
\* queried or written the table.
Response(op, status, table, bodyRead, accessed) ==
  [op |-> op, status |-> status, table |-> table, bodyRead |-> bodyRead,
   accessed |-> accessed]

\* the id the database gives a new row
NewIds == << "n1", "n2", "n3", "n4", "n5" >>
FreshId(table) ==
  NewIds[CHOOSE i \in DOMAIN NewIds :
           /\ \A k \in DOMAIN table : table[k].id # NewIds[i]
           /\ \A j \in 1..(i - 1) : \E k \in DOMAIN table : table[k].id = NewIds[j]]

RowsOf(table, tid) == SelectSeq(table, LAMBDA r : r.tutorialId = tid)

\* JavaScript's !v for the values a body carries
Falsy(v) ==
  \/ v.type \in { "undefined", "null" }
  \/ v.type = "number" /\ v.num = 0
  \/ v.type = "string" /\ v.str = ""

\* mutant: the coordinates are tested like the title, so 0 is refused
PostRoute_refusesZero(c) ==
  IF ~c.session THEN Response("POST", 401, c.table, FALSE, FALSE)
  ELSE IF c.malformed THEN Response("POST", 500, c.table, TRUE, FALSE)
  ELSE IF Falsy(c.body.title) \/ Falsy(c.body.x)
          \/ Falsy(c.body.y) \/ Falsy(c.body.z)
  THEN Response("POST", 400, c.table, TRUE, FALSE)
  ELSE LET finalOrder == IF c.body.order = Omitted \/ c.body.order = Null
                         THEN Num(Len(RowsOf(c.table, c.tutorialId)) + 1)
                         ELSE c.body.order
       IN  Response("POST", 200,
            Append(c.table,
              [id |-> FreshId(c.table), tutorialId |-> c.tutorialId, title |-> c.body.title,
               content |-> IF Falsy(c.body.content) THEN Str("") ELSE c.body.content,
               imageUrl |-> IF Falsy(c.body.imageUrl) THEN Null ELSE c.body.imageUrl,
               x |-> c.body.x, y |-> c.body.y, z |-> c.body.z,
               order |-> finalOrder, updatedAt |-> "created"]),
            TRUE, TRUE)

\* mutant: the older route, which also replaces an order of 0 or 1
PostRoute_replacesDefault(c) ==
  IF ~c.session THEN Response("POST", 401, c.table, FALSE, FALSE)
  ELSE IF c.malformed THEN Response("POST", 500, c.table, TRUE, FALSE)
  ELSE IF Falsy(c.body.title) \/ c.body.x = Omitted
          \/ c.body.y = Omitted \/ c.body.z = Omitted
  THEN Response("POST", 400, c.table, TRUE, FALSE)
  ELSE LET finalOrder == IF Falsy(c.body.order) \/ c.body.order = Num(1)
                         THEN Num(Len(RowsOf(c.table, c.tutorialId)) + 1)
                         ELSE c.body.order
       IN  Response("POST", 200,
            Append(c.table,
              [id |-> FreshId(c.table), tutorialId |-> c.tutorialId, title |-> c.body.title,
               content |-> IF Falsy(c.body.content) THEN Str("") ELSE c.body.content,
               imageUrl |-> IF Falsy(c.body.imageUrl) THEN Null ELSE c.body.imageUrl,
               x |-> c.body.x, y |-> c.body.y, z |-> c.body.z,
               order |-> finalOrder, updatedAt |-> "created"]),
            TRUE, TRUE)

\* POST /api/tutorials/<id>/annotations
PostRoute(c) ==
  IF ~c.session THEN Response("POST", 401, c.table, FALSE, FALSE)
  ELSE IF c.malformed THEN Response("POST", 500, c.table, TRUE, FALSE)
  ELSE IF Falsy(c.body.title) \/ c.body.x = Omitted
          \/ c.body.y = Omitted \/ c.body.z = Omitted
  THEN Response("POST", 400, c.table, TRUE, FALSE)
  ELSE LET finalOrder == IF c.body.order = Omitted \/ c.body.order = Null
                         THEN Num(Len(RowsOf(c.table, c.tutorialId)) + 1)
                         ELSE c.body.order
       IN  Response("POST", 200,
            Append(c.table,
              [id |-> FreshId(c.table), tutorialId |-> c.tutorialId, title |-> c.body.title,
               content |-> IF Falsy(c.body.content) THEN Str("") ELSE c.body.content,
               imageUrl |-> IF Falsy(c.body.imageUrl) THEN Null ELSE c.body.imageUrl,
               x |-> c.body.x, y |-> c.body.y, z |-> c.body.z,
               order |-> finalOrder, updatedAt |-> "created"]),
            TRUE, TRUE)

Given(v, stored) == IF v = Omitted THEN stored ELSE v

\* mutant: the older route, which sets every field from the body
PutRoute_setsAll(c) ==
  IF ~c.session THEN Response("PUT", 401, c.table, FALSE, FALSE)
  ELSE IF c.malformed THEN Response("PUT", 500, c.table, TRUE, FALSE)
  ELSE IF c.body.annotationId = ""
  THEN Response("PUT", 400, c.table, TRUE, FALSE)
  ELSE Response("PUT", 200,
        [k \in 1..Len(c.table) |->
          LET r == c.table[k]
          IN  IF r.id = c.body.annotationId /\ r.tutorialId = c.tutorialId
              THEN [r EXCEPT !.title = c.body.title,
                             !.content = c.body.content,
                             !.x = c.body.x, !.y = c.body.y, !.z = c.body.z,
                             !.order = c.body.order,
                             !.updatedAt = "now"]
              ELSE r],
        TRUE, TRUE)

\* PUT /api/tutorials/<id>/annotations
PutRoute(c) ==
  IF ~c.session THEN Response("PUT", 401, c.table, FALSE, FALSE)
  ELSE IF c.malformed THEN Response("PUT", 500, c.table, TRUE, FALSE)
  ELSE IF c.body.annotationId = ""
  THEN Response("PUT", 400, c.table, TRUE, FALSE)
  ELSE Response("PUT", 200,
        [k \in 1..Len(c.table) |->
          LET r == c.table[k]
          IN  IF r.id = c.body.annotationId /\ r.tutorialId = c.tutorialId
              THEN [r EXCEPT !.title = Given(c.body.title, @),
                             !.content = Given(c.body.content, @),
                             !.x = Given(c.body.x, @),
                             !.y = Given(c.body.y, @),
                             !.z = Given(c.body.z, @),
                             !.order = Given(c.body.order, @),
                             !.imageUrl = Given(c.body.imageUrl, @),
                             !.updatedAt = "now"]
              ELSE r],
        TRUE, TRUE)

\* mutant: the row is deleted by its id alone
DeleteRoute_byIdOnly(c) ==
  IF ~c.session THEN Response("DELETE", 401, c.table, FALSE, FALSE)
  ELSE IF c.annotationId = "" THEN Response("DELETE", 400, c.table, FALSE, FALSE)
  ELSE Response("DELETE", 200,
                SelectSeq(c.table, LAMBDA r : ~(r.id = c.annotationId)),
                FALSE, TRUE)

\* DELETE /api/tutorials/<id>/annotations?annotationId=<annotationId>
DeleteRoute(c) ==
  IF ~c.session THEN Response("DELETE", 401, c.table, FALSE, FALSE)
  ELSE IF c.annotationId = "" THEN Response("DELETE", 400, c.table, FALSE, FALSE)
  ELSE Response("DELETE", 200,
                SelectSeq(c.table, LAMBDA r :
                            ~(r.id = c.annotationId /\ r.tutorialId = c.tutorialId)),
                FALSE, TRUE)

\* the orderings of the rows that are ascending in order
Ascending(rows) ==
  { [i \in DOMAIN rows |-> rows[p[i]]] :
      p \in { q \in [DOMAIN rows -> DOMAIN rows] :
                /\ \A i, j \in DOMAIN rows : i # j => q[i] # q[j]
                /\ \A i, j \in DOMAIN rows :
                     i < j => rows[q[i]].order.num <= rows[q[j]].order.num } }

\* mutant: the list is served without a session
GetRoute_open(c) ==
  { [op |-> "GET", status |-> 200, table |-> c.table, bodyRead |-> FALSE,
     accessed |-> TRUE, annotations |-> list] :
      list \in Ascending(RowsOf(c.table, c.tutorialId)) }

\* GET /api/tutorials/<id>/annotations: the responses it can give (rows of
\* equal order come in the order the database chooses)
GetRoute(c) ==
  IF ~c.session
  THEN { [op |-> "GET", status |-> 401, table |-> c.table, bodyRead |-> FALSE,
          accessed |-> FALSE, annotations |-> << >>] }
  ELSE { [op |-> "GET", status |-> 200, table |-> c.table, bodyRead |-> FALSE,
          accessed |-> TRUE, annotations |-> list] :
           list \in Ascending(RowsOf(c.table, c.tutorialId)) }

HandleDelete ==
  /\ call.op = "DELETE"
  /\ ret.op = "none"
  /\ ret' = DeleteRoute(call)
  /\ UNCHANGED << playerVars, viewerVars, clock, animation, call >>

HandleGet ==
  /\ call.op = "GET"
  /\ ret.op = "none"
  /\ ret' \in GetRoute(call)
  /\ UNCHANGED << playerVars, viewerVars, clock, animation, call >>

HandlePost ==
  /\ call.op = "POST"
  /\ ret.op = "none"
  /\ ret' = PostRoute(call)
  /\ UNCHANGED << playerVars, viewerVars, clock, animation, call >>

HandlePut ==
  /\ call.op = "PUT"
  /\ ret.op = "none"
  /\ ret' = PutRoute(call)
  /\ UNCHANGED << playerVars, viewerVars, clock, animation, call >>

\* One invocation per behaviour: the redraw of the annotation layer, a
\* double click on the canvas, or a request to an annotation route.
CallInit ==
  /\ PlayerInit /\ ~authenticated /\ dbAnnotations = << >>
  /\ ViewerIdle /\ AnimationIdle
  /\ call \in RenderCalls \cup PlacementCalls \cup RouteCalls
  /\ ret = [op |-> "none"]

CallNext ==
  \/ Render \/ DoubleClick
  \/ HandlePost \/ HandleGet \/ HandlePut \/ HandleDelete

CallSpec == CallInit /\ [][CallNext]_vars

Returned(op) == call.op = op /\ ret.op = op

\* ---------------------------------- requests to the routes, one by one
\* The requests a manager's client sends to tutorial t1, over the table as
\* the request before has left it: n counts them, origin is the table
\* before the first.
SeqRequests(tb, n, origin) ==
  LET Sent(req) == [f \in DOMAIN req \cup { "n", "origin" } |->
                      IF f = "n" THEN n ELSE IF f = "origin" THEN origin ELSE req[f]]
  IN  { Sent([op |-> "POST", session |-> s, tutorialId |-> "t1", table |-> tb,
              malformed |-> FALSE,
              body |-> [title |-> Str("T"), content |-> Omitted, x |-> Num(0),
                        y |-> Num(0), z |-> Num(0), order |-> Omitted,
                        imageUrl |-> Omitted]]) : s \in BOOLEAN }
      \cup
      { Sent([op |-> "PUT", session |-> s, tutorialId |-> "t1", table |-> tb,
              malformed |-> FALSE,
              body |-> [title |-> Omitted, content |-> Omitted, x |-> Num(9),
                        y |-> Omitted, z |-> Omitted, order |-> Num(7),
                        imageUrl |-> Omitted, annotationId |-> a]]) :
          s \in BOOLEAN, a \in { "r1", "r9" } }
      \cup
      { Sent([op |-> "DELETE", session |-> s, tutorialId |-> "t1", table |-> tb,
              annotationId |-> a]) :
          s \in BOOLEAN, a \in { "r1", "r9", "n1" } }
      \cup
      { Sent([op |-> "GET", session |-> s, tutorialId |-> "t1", table |-> tb]) :
          s \in BOOLEAN }

\* the client sends its next request after the answer to the last
NextRequest ==
  /\ ret.op # "none"
  /\ call.n < MaxRequests
  /\ call' \in SeqRequests(ret.table, call.n + 1, call.origin)
  /\ ret' = [op |-> "none"]
  /\ UNCHANGED << playerVars, viewerVars, clock, animation >>

RouteInit ==
  /\ PlayerInit /\ ~authenticated /\ dbAnnotations = << >>
  /\ ViewerIdle /\ AnimationIdle
  /\ \E tb \in RouteTables : call \in SeqRequests(tb, 1, tb)
  /\ ret = [op |-> "none"]

RouteNext ==
  \/ HandlePost \/ HandleGet \/ HandlePut \/ HandleDelete
  \/ NextRequest

RouteSpec == RouteInit /\ [][RouteNext]_vars

ViewerTypeOK ==
  /\ host.timers \subseteq BACKOFF
  /\ Len(toOverlay) <= MaxQueue
  /\ Len(toHost) <= MaxQueue
  /\ overlay.stage \in { "none", "listening", "loaded", "failed" }

TypeOK ==
  /\ currentStep \in 0..3
  /\ completedSteps \subseteq Ids
  /\ warningTimers \in 0..MaxPending
  /\ loads \in 0..MaxPending
  /\ redirects \in 0..MaxPending
  /\ pending <= MaxPending

\* =================================================================== claims
\* Vocabulary of the claims.

\* A step in which markComplete runs: called by Enter/Space with the welcome
\* popup dismissed, or by the Mark Complete button where it is enabled.
MarkCompleteInvoked ==
  /\ UNCHANGED << serverVars, pageVars >>
  /\ \/ ~showWelcome
     \/ /\ playerRendered
        /\ ~currentIsCompleted
        /\ isNearCurrentAnnotation
        /\ (nextRequiredStep = -1 \/ currentStep = nextRequiredStep)
  /\ markComplete

StepIsCompleted(k) == sortedAnnotations[k + 1].id \in completedSteps

\* index of the first not-yet-completed annotation in sorted order, -1 if none
FirstIncomplete ==
  IF \A k \in 0..(stepCount - 1) : StepIsCompleted(k)
  THEN -1
  ELSE CHOOSE k \in 0..(stepCount - 1) :
         ~StepIsCompleted(k) /\ \A j \in 0..(k - 1) : StepIsCompleted(j)

OutOfOrder == FirstIncomplete # -1 /\ FirstIncomplete # currentStep

\* squared distance, in hundredths, between the camera and the current step
CameraDistanceSquared ==
  LET ann == sortedAnnotations[currentStep + 1]
  IN  (cameraPosition[1] - ann.x) * (cameraPosition[1] - ann.x)
    + (cameraPosition[2] - ann.y) * (cameraPosition[2] - ann.y)
    + (cameraPosition[3] - ann.z) * (cameraPosition[3] - ann.z)

\* 3.0 units, squared, in hundredths
WithinThreeUnits == CameraDistanceSquared < 900

ProgressionUnchanged ==
  /\ completedSteps' = completedSteps
  /\ currentStep' = currentStep
  /\ saves' = saves

\* C1: markComplete on a not-yet-completed current step while the first
\* not-yet-completed step exists and is another one changes neither the
\* completed set nor the current step, issues no save request, and shows the
\* warning that names step FirstIncomplete + 1.
C1_SequentialGate ==
  [][ (hasCurrentAnnotation /\ ~StepIsCompleted(currentStep) /\ OutOfOrder
         /\ MarkCompleteInvoked)
      => (ProgressionUnchanged
          /\ proximityWarning' = SequentialWarning(FirstIncomplete + 1)) ]_vars

\* C1 witness: three steps, none completed, the learner on the second step,
\* and the warning naming step 1 is up.
C1_Witness ==
  /\ stepCount = 3 /\ completedSteps = {} /\ currentStep = 1
  /\ proximityWarning = SequentialWarning(1)

\* C2 (as claimed): in every reachable state the completed set is a prefix of
\* the sorted annotation sequence.
CompletedIsPrefix ==
  \A k \in 0..(stepCount - 1) :
    StepIsCompleted(k) => \A j \in 0..(k - 1) : StepIsCompleted(j)

C2_CompletedIsPrefix == CompletedIsPrefix

\* C2 (amended): as long as no manager has edited the annotation table the
\* completed set is a prefix of the sorted sequence in every reachable state,
\* hydration included; and, edits or not, no step other than the hydration of
\* persisted progress turns a completed set that is a prefix into one that is
\* not.
C2_PrefixKeptExceptByHydration ==
  /\ [](edits = 0 => CompletedIsPrefix)
  /\ [][ LoadResolved \/ (CompletedIsPrefix => CompletedIsPrefix') ]_vars

\* C2 witness: two of three steps completed, in order, by markComplete (the
\* save of the second is still in flight).
C2_Witness ==
  /\ stepCount = 3 /\ Cardinality(completedSteps) = 2 /\ CompletedIsPrefix
  /\ \E i \in 1..Len(saves) : saves[i].completedAnnotations = completedSteps

C4_ProximityGate ==
  [][ (hasCurrentAnnotation /\ MarkCompleteInvoked)
      => /\ ~ProgressionUnchanged => WithinThreeUnits
         /\ (~WithinThreeUnits /\ ~StepIsCompleted(currentStep) /\ ~OutOfOrder)
              => proximityWarning' = ProximityWarningText ]_vars

\* C4 witness: the proximity warning is up with the camera exactly 3.0 units
\* from the current annotation.
C4_Witness ==
  /\ hasCurrentAnnotation /\ ~StepIsCompleted(currentStep)
  /\ CameraDistanceSquared = 900
  /\ proximityWarning = ProximityWarningText

\* C5: markComplete on a step that is not completed, is the next required one
\* and is within 3.0 units adds exactly its id, calls saveProgress with the
\* new set (a request carrying that set when there is a session), clears the
\* warning, and advances the step by one unless it is the last.
C5_SuccessfulMarkComplete ==
  [][ (hasCurrentAnnotation /\ ~StepIsCompleted(currentStep) /\ ~OutOfOrder
         /\ WithinThreeUnits /\ MarkCompleteInvoked)
      => LET id == sortedAnnotations[currentStep + 1].id
             newSet == completedSteps \cup {id}
         IN  /\ completedSteps' = newSet
             /\ proximityWarning' = NoWarning
             /\ currentStep' = IF currentStep = stepCount - 1
                               THEN currentStep ELSE currentStep + 1
             /\ session =>
                  /\ Len(saves') = Len(saves) + 1
                  /\ SubSeq(saves', 1, Len(saves)) = saves
                  /\ saves'[Len(saves')].completedAnnotations = newSet
             /\ ~session => saves' = saves ]_vars

\* C5 witness: the first step was just completed by a signed-in learner: the
\* step advanced to 1 and the save of the one-element set is in flight.
C5_Witness ==
  /\ stepCount = 3 /\ currentStep = 1
  /\ completedSteps = {sortedAnnotations[1].id}
  /\ saves = << [completedAnnotations |-> completedSteps, completed |-> FALSE] >>
  /\ proximityWarning = NoWarning

\* C6: the warning is that of the first failing check: a completed step gets
\* the already-completed warning even out of reach, a step out of order gets
\* the sequential warning even out of reach, and without a current annotation
\* markComplete changes nothing.
C6_CheckPriority ==
  [][ MarkCompleteInvoked
      => /\ ~hasCurrentAnnotation => UNCHANGED vars
         /\ (hasCurrentAnnotation /\ StepIsCompleted(currentStep))
              => proximityWarning' = AlreadyCompletedWarning
         /\ (hasCurrentAnnotation /\ ~StepIsCompleted(currentStep) /\ OutOfOrder)
              => proximityWarning' = SequentialWarning(FirstIncomplete + 1) ]_vars

\* C6 witness: a completed step, out of reach and not the next required one,
\* shows the already-completed warning.
C6_Witness ==
  /\ hasCurrentAnnotation /\ StepIsCompleted(currentStep)
  /\ ~WithinThreeUnits /\ OutOfOrder
  /\ proximityWarning = AlreadyCompletedWarning

\* C7 (as claimed): in every reachable state the completed set is a subset of
\* the ids of the loaded tutorial's annotations.
C7_CompletedSubsetOfAnnotations ==
  tutorial.loaded => completedSteps \subseteq RowIds(tutorial.annotations)

\* C8: whenever the sorted annotation sequence is non-empty the current step
\* is one of its indices.
C8_CurrentStepValid ==
  stepCount > 0 => (0 <= currentStep /\ currentStep <= stepCount - 1)

\* C8 witness: the learner has walked to the last of three steps.
C8_Witness == stepCount = 3 /\ currentStep = 2

\* C9: vocabulary.  A previous / next step is the arrow key (welcome popup
\* dismissed) or the button.
PreviousStep ==
  \/ ~showWelcome /\ \E key \in PreviousKeys : handleKeyDown(key)
  \/ PreviousButton

NextStep ==
  \/ ~showWelcome /\ \E key \in NextKeys : handleKeyDown(key)
  \/ NextButton

\* the completed set is left alone and no save is issued
ProgressUntouched ==
  /\ completedSteps' = completedSteps
  /\ saves' = saves
  /\ saving' = saving

\* With the player on screen every step of the list can be gone to, whatever
\* is completed.
EveryStepReachable ==
  playerRendered =>
    \A index \in 0..(stepCount - 1) : ENABLED (StepButton /\ currentStep' = index)

\* C9: previous, next, goToStep and marker clicks leave the completed set
\* alone and issue no save (a step either leaves them alone or is none of
\* these); previous moves to max(0, step - 1) and next to min(last, step + 1)
\* whatever is completed; every step can be gone to whatever is completed.
C9_NavigationFrame ==
  /\ []EveryStepReachable
  /\ [][ /\ ProgressUntouched
            \/ ~(StepButton \/ AnnotationClick \/ PreviousStep \/ NextStep)
         /\ currentStep' = (IF currentStep = 0 THEN 0 ELSE currentStep - 1)
            \/ ~PreviousStep
         /\ currentStep' = (IF currentStep >= stepCount - 1
                            THEN currentStep ELSE currentStep + 1)
            \/ ~NextStep ]_vars

\* C9 witness: the learner stands on the last of three steps with nothing
\* completed.
C9_Witness ==
  /\ stepCount = 3 /\ currentStep = 2 /\ completedSteps = {} /\ saves = << >>

\* C10 (as claimed): while the welcome popup is shown, no key, button or
\* marker click changes the current step or the completed set.
C10_WelcomeBlocksInput ==
  [][ (showWelcome /\ (KeyDown \/ StepButton \/ PreviousButton \/ NextButton
                        \/ MarkCompleteButton \/ AnnotationClick))
      => (currentStep' = currentStep /\ completedSteps' = completedSteps) ]_vars

\* ---------------------------------------------------------------- C11..C15
\* What markComplete makes of the completed set and the current step, as the
\* specification describes it; nothing of it depends on the session.
AllChecksPass ==
  /\ hasCurrentAnnotation
  /\ ~StepIsCompleted(currentStep)
  /\ ~OutOfOrder
  /\ WithinThreeUnits

ExpectedCompleted ==
  IF AllChecksPass
  THEN completedSteps \cup {sortedAnnotations[currentStep + 1].id}
  ELSE completedSteps

ExpectedStep ==
  IF AllChecksPass /\ currentStep < stepCount - 1 THEN currentStep + 1 ELSE currentStep

\* C11: while there is no session no progress load and no progress save is
\* in flight, and a markComplete step without a session issues none; with or
\* without a session markComplete makes the same completed set and current
\* step out of the same state.
C11_AnonymousMode ==
  /\ [](~session => (loads = 0 /\ saves = << >>))
  /\ [][ MarkCompleteInvoked
         => /\ completedSteps' = ExpectedCompleted
            /\ currentStep' = ExpectedStep
            /\ ~session => (saves' = saves /\ loads' = loads /\ saving' = saving) ]_vars

\* C11 witness: a learner without a login has completed two of three steps
\* and stands on the third; nothing was requested, nothing is stored.
C11_Witness ==
  /\ ~authenticated /\ ~session
  /\ stepCount = 3 /\ Cardinality(completedSteps) = 2 /\ currentStep = 2
  /\ saves = << >> /\ loads = 0 /\ dbProgress = NoProgress

\* C12 (as claimed): per tutorial load at most one progress load is in flight,
\* and once the completed set has been hydrated no further load is in flight
\* that could hydrate it again.
C12_HydratedOncePerLoad ==
  /\ loads <= 1
  /\ progressLoaded => loads = 0

C14_CompletedSaveSchedulesRedirect ==
  [][ \A i \in 1..Len(saves) :
        (saves' = RemoveAt(saves, i) /\ fetchStage' = fetchStage)
          => redirects' = (IF saves[i].completed THEN redirects + 1 ELSE redirects) ]_vars

\* C15: when a save request comes to its end, by a rejection as by an answer,
\* the completed set and the current step stay as markComplete left them, the
\* saving flag is false, and markComplete takes the same return afterwards.
C15_SaveFailureKeepsProgress ==
  [][ (Len(saves') < Len(saves) /\ fetchStage' = fetchStage)
      => /\ completedSteps' = completedSteps
         /\ currentStep' = currentStep
         /\ saving' = FALSE
         /\ markCompleteResult' = markCompleteResult ]_vars

\* C15 witness: all three steps are completed and the step stands at the end,
\* no save is in flight and none is flagged, but the store holds only the
\* first two and no redirect is pending: the last save was lost.
C15_Witness ==
  /\ session /\ stepCount = 3 /\ Cardinality(completedSteps) = 3 /\ currentStep = 2
  /\ saves = << >> /\ ~saving /\ redirects = 0
  /\ dbProgress.exists /\ Cardinality(dbProgress.completedAnnotations) = 2

\* ---------------------------------------------------------------- C16..C20
\* Vocabulary: what a step posts and what it hands to a listener.
RequestSent ==
  \E k \in (Len(toHost) + 1)..Len(toHost') : toHost'[k].type = "requestAnnotations"

UpdateSent == Len(toOverlay') > Len(toOverlay)

OverlayBecomesLoaded == overlay.stage = "listening" /\ overlay'.stage = "loaded"

\* the overlay's listener handles an updateAnnotations with a non-empty list
NonEmptyUpdateHandled ==
  /\ overlay.stage # "none"
  /\ toOverlay # << >> /\ toOverlay' = Tail(toOverlay)
  /\ Len(Head(toOverlay).annotations) > 0

\* two requests wait in the queue: at least one is a tick's
PollHasFired ==
  \E j, k \in DOMAIN toHost :
     j < k /\ toHost[j].type = "requestAnnotations" /\ toHost[k].type = "requestAnnotations"

HostNonEmpty == host.mounted /\ Len(host.annotations) > 0

\* C18: while the host holds a non-empty list, a running poll is eventually
\* cancelled; the interval is cleared only with a non-empty working list,
\* and a poll running on an empty working list always gets another request
\* under way.
C18_PollTermination ==
  /\ (overlay.annotationPollInterval /\ HostNonEmpty)
        ~> (~overlay.annotationPollInterval \/ ~HostNonEmpty)
  /\ [][ (overlay.annotationPollInterval /\ ~overlay'.annotationPollInterval)
          => Len(overlay'.annotations) > 0 ]_vars
  /\ (overlay.annotationPollInterval /\ Len(overlay.annotations) = 0 /\ toHost = << >>)
        ~> (Len(overlay.annotations) > 0
            \/ \E k \in DOMAIN toHost : toHost[k].type = "requestAnnotations")

\* C18 witness: the host holds a non-empty list, the overlay started with an
\* empty one and has polled, has the host's list now, and the poll is off.
C18_Witness ==
  /\ HostNonEmpty /\ host.iframeReady
  /\ overlay.stage = "loaded" /\ overlay.received
  /\ overlay.annotations = host.annotations
  /\ ~overlay.annotationPollInterval
  /\ toHost = << >> /\ toOverlay = << >>

Schedule == << 0, 100, 300, 500, 1000 >>

IsPrefix(p, q) == Len(p) <= Len(q) /\ \A i \in 1..Len(p) : p[i] = q[i]

C20_BoundedUpdateTraffic ==
  [][ /\ UpdateSent
           => \/ ~host.mounted
              \/ << host'.annotations, host'.activeAnnotationId, host'.iframeReady >>
                   # << host.annotations, host.activeAnnotationId, host.iframeReady >>
              \/ Len(host'.sentAt) = Len(host.sentAt) + 1
              \/ (toHost # << >> /\ Head(toHost).type = "requestAnnotations"
                                /\ toHost' = Tail(toHost))
      /\ (toHost # << >> /\ Head(toHost).type = "cameraUpdate" /\ toHost' = Tail(toHost))
           => toOverlay' = toOverlay ]_vars

\* ---------------------------------------------------------------- C21..C30
\* C21: any two consecutive cameraUpdate messages are more than 100 ms of
\* Date.now() apart, whatever the gaps between the frames, and every frame
\* renders.
C21_CameraUpdateThrottled ==
  /\ [](Len(animation.sentAt) = 2 => animation.sentAt[2] - animation.sentAt[1] > 100)
  /\ [][ clock' # clock \/ animation' # animation
          => animation'.frames = animation.frames + 1 ]_vars

\* C21 witness: two reports 101 ms apart, with two frames in between that
\* reported nothing.
C21_Witness ==
  /\ Len(animation.sentAt) = 2
  /\ animation.sentAt[2] - animation.sentAt[1] = 101
  /\ animation.frames = 4

\* -- the redraw of the annotation layer (C23..C26)
Redrawn == Returned("updateAnnotationPositions") /\ call.sceneReady

\* the elements of the redrawn layer that belong to the annotation at i
ElementsFor(i) == { k \in DOMAIN ret.elements : ret.elements[k].index = i }

\* the claimed class of a projected point in a viewport
ClaimedBehind(p) == p.z > 10
ClaimedOffBounds(p, w, h) ==
  /\ ~ClaimedBehind(p)
  /\ \/ screenX(p, w) < -20
     \/ screenX(p, w) > w + 20
     \/ screenY(p, h) < -20
     \/ screenY(p, h) > h + 20
ClaimedOnScreen(p, w, h) == ~ClaimedBehind(p) /\ ~ClaimedOffBounds(p, w, h)

\* C23 (as claimed): every annotation of the list is classified as behind
\* (depth > 1), offBounds (not behind, more than 20 pixels outside the
\* viewport) or onScreen (otherwise); an onScreen annotation gets exactly one
\* marker and no indicator in the frame, every other one no marker.
C23_OnScreenGetsMarker ==
  Redrawn =>
    \A i \in 1..Len(call.annotations) :
      LET p == call.annotations[i]
          w == call.viewport[1]
          h == call.viewport[2]
      IN  IF ClaimedOnScreen(p, w, h)
          THEN /\ Cardinality(ElementsFor(i)) = 1
               /\ \A k \in ElementsFor(i) : ret.elements[k].kind = "marker"
          ELSE \A k \in ElementsFor(i) : ret.elements[k].kind = "indicator"

\* C24 (as claimed): every off-screen annotation gets an indicator placed
\* inside [60, width-60] x [60, height-60], for every viewport size.
C24_IndicatorInsidePadding ==
  Redrawn =>
    \A i \in 1..Len(call.annotations) :
      LET p == call.annotations[i]
          w == call.viewport[1]
          h == call.viewport[2]
      IN  ~ClaimedOnScreen(p, w, h) =>
            /\ Cardinality(ElementsFor(i)) = 1
            /\ \A k \in ElementsFor(i) :
                 /\ ret.elements[k].kind = "indicator"
                 /\ 60 <= ret.elements[k].left /\ ret.elements[k].left <= w - 60
                 /\ 60 <= ret.elements[k].top /\ ret.elements[k].top <= h - 60

\* the source coordinate of an indicator: the screen coordinate of the
\* point, or of the NDC-negated point if the point is behind the camera
SourceX(p, w) == IF p.z > 10 THEN ((10 + (0 - p.x)) * w) \div 20 ELSE screenX(p, w)
SourceY(p, h) == IF p.z > 10 THEN ((10 - (0 - p.y)) * h) \div 20 ELSE screenY(p, h)

\* C25: every indicator drawn has the direction given by the priority left
\* (edgeX <= 60), right (edgeX >= width-60), top (edgeY <= 60), bottom
\* (edgeY >= height-60), is pinned to that edge's coordinate and has the
\* other axis clamped.
C25_DirectionPriority ==
  Redrawn =>
    \A k \in DOMAIN ret.elements :
      LET e == ret.elements[k]
          w == call.viewport[1]
          h == call.viewport[2]
          ex == SourceX(call.annotations[e.index], w)
          ey == SourceY(call.annotations[e.index], h)
          cx == IF ex < 60 \/ w - 60 < 60 THEN 60 ELSE IF ex > w - 60 THEN w - 60 ELSE ex
          cy == IF ey < 60 \/ h - 60 < 60 THEN 60 ELSE IF ey > h - 60 THEN h - 60 ELSE ey
          isLeft == ex <= 60
          isRight == ~isLeft /\ ex >= w - 60
          isTop == ~isLeft /\ ~isRight /\ ey <= 60
          isBottom == ~isLeft /\ ~isRight /\ ~isTop /\ ey >= h - 60
      IN  e.kind = "indicator" =>
            /\ (e.direction = "left") = isLeft
            /\ (e.direction = "right") = isRight
            /\ (e.direction = "top") = isTop
            /\ (e.direction = "bottom") = isBottom
            /\ isLeft => e.left = 60 /\ e.top = cy
            /\ isRight => e.left = w - 60 /\ e.top = cy
            /\ isTop => e.left = cx /\ e.top = 60
            /\ isBottom => e.left = cx /\ e.top = h - 60

\* an indicator near both the left and the top edge, drawn as left
C25_Witness ==
  /\ Redrawn
  /\ \E k \in DOMAIN ret.elements :
       LET e == ret.elements[k]
           p == call.annotations[e.index]
       IN  /\ e.kind = "indicator"
           /\ SourceX(p, call.viewport[1]) <= 60
           /\ SourceY(p, call.viewport[2]) <= 60
           /\ e.direction = "left"
           /\ e.left = 60

\* C26 (as claimed): a redraw raises no error and yields exactly one
\* element per annotation of the list, also when the list holds a behind
\* annotation whose mirrored position is strictly inside the padding.
C26_DegenerateCaseRenders ==
  Redrawn =>
    /\ ~ret.threw
    /\ \A i \in 1..Len(call.annotations) : Cardinality(ElementsFor(i)) = 1

\* -- placement by double click (C27)
\* C27: a double click with editMode true posts exactly one addAnnotation,
\* at the first intersection of the ray with the surface, or 3 units along
\* the ray from its origin when there is none or the raycast throws; a
\* double click with editMode false posts nothing.
C27_Placement ==
  Returned("dblclick") =>
    IF call.editMode
    THEN /\ Len(ret.posted) = 1
         /\ ret.posted[1].type = "addAnnotation"
         /\ ret.posted[1].position =
              IF call.raycast.outcome = "hits"
              THEN Head(call.raycast.intersects)
              ELSE << call.ray.origin[1] + 3 * call.ray.direction[1],
                      call.ray.origin[2] + 3 * call.ray.direction[2],
                      call.ray.origin[3] + 3 * call.ray.direction[3] >>
    ELSE ret.posted = << >>

\* a double click in edit mode whose raycast threw, placed by the fallback
C27_Witness ==
  /\ Returned("dblclick")
  /\ call.editMode
  /\ call.raycast.outcome = "throws"
  /\ call.ray.origin = << 1, 2, 3 >>
  /\ call.ray.direction = << 0, -1, 0 >>
  /\ ret.posted = << [type |-> "addAnnotation", position |-> << 1, -1, 3 >>] >>

\* -- the annotation routes (C29, C30)
\* the number of rows the tutorial of the request has before the request
CountBefore ==
  Cardinality({ k \in DOMAIN call.table : call.table[k].tutorialId = call.tutorialId })

UpdatableFields == { "title", "content", "x", "y", "z", "order", "imageUrl" }

Rank(list, k) ==
  1 + Cardinality({ j \in DOMAIN list :
                      \/ list[j].order < list[k].order
                      \/ list[j].order = list[k].order /\ j < k })

Display(list) ==
  [i \in DOMAIN list |-> list[CHOOSE k \in DOMAIN list : Rank(list, k) = i]]

\* 0-based index of the first step of the display sequence that is not
\* completed, -1 if there is none
FirstOpen(seq, done) ==
  IF \A i \in DOMAIN seq : seq[i].id \in done THEN -1
  ELSE (CHOOSE i \in DOMAIN seq :
          /\ seq[i].id \notin done
          /\ \A j \in 1..(i - 1) : seq[j].id \in done) - 1

\* C28: the display sequence is the tutorial's list sorted by order, ties
\* in list order; the tutorial's list stays as fetched; the current step,
\* the next required step and the step markComplete records are taken
\* from the display sequence.
C28_DisplaySequence ==
  /\ [](tutorial.loaded =>
          /\ sortedAnnotations = Display(tutorial.annotations)
          /\ tutorial.annotations = dbAnnotations
          /\ nextRequiredStep = FirstOpen(Display(tutorial.annotations), completedSteps)
          /\ hasCurrentAnnotation =>
               currentAnnotation = Display(tutorial.annotations)[currentStep + 1])
  /\ [][ (MarkCompleteInvoked /\ completedSteps' # completedSteps)
         => /\ currentStep = FirstOpen(Display(tutorial.annotations), completedSteps)
            /\ completedSteps' =
                 completedSteps \cup { Display(tutorial.annotations)[currentStep + 1].id } ]_vars

\* orders 1, 1, 0 for a, b, c: shown as c, a, b, and c and a completed in
\* that order
C28_Witness ==
  /\ tutorial.loaded
  /\ tutorial.annotations = << Ann("a", 1), Ann("b", 1), Ann("c", 0) >>
  /\ sortedAnnotations = << Ann("c", 0), Ann("a", 1), Ann("b", 1) >>
  /\ completedSteps = { "c", "a" }
  /\ currentStep = 2

\* -- teardown (C22)
\* C22 (as claimed): once the player and its viewer are unmounted, the
\* viewer's listener is removed and no timer of theirs is pending (backoff
\* timers, poll, warning-clear timers, redirect timer), so none of their
\* callbacks runs afterwards.
C22_NothingPendingAfterUnmount ==
  fetchStage = "unmounted" =>
    /\ host = HostUnmounted
    /\ overlay = NoOverlay
    /\ warningTimers = 0
    /\ redirects = 0

\* ---------------------------------------------------------------- C31..C40
\* a route has answered the request in call
Answered == ret.op # "none" /\ ret.op = call.op

\* the rows of a table that do not belong to the addressed tutorial
ForeignRows(table) ==
  SelectSeq(table, LAMBDA r : r.tutorialId # call.tutorialId)

\* C31: a DELETE or PUT addressed to tutorial T with id a removes or changes
\* a row only if it has id a and belongs to T, and after any sequence of
\* requests addressed to T the rows of every other tutorial are as they
\* were before the first.
C31_CrossTutorialIsolation ==
  Answered =>
    /\ ForeignRows(ret.table) = ForeignRows(call.origin)
    /\ call.op = "PUT" =>
         /\ Len(ret.table) = Len(call.table)
         /\ \A k \in DOMAIN call.table :
              ret.table[k] # call.table[k]
                => /\ call.table[k].id = call.body.annotationId
                   /\ call.table[k].tutorialId = call.tutorialId
    /\ call.op = "DELETE" =>
         \A k \in DOMAIN call.table :
           (\A j \in DOMAIN ret.table : ret.table[j] # call.table[k])
             => /\ call.table[k].id = call.annotationId
                /\ call.table[k].tutorialId = call.tutorialId

\* the third request, a DELETE sent to t1 with the id of the row of t2, is
\* answered with success and the row of t2 is still there
C31_Witness ==
  /\ Answered
  /\ call.op = "DELETE" /\ call.n = 3 /\ call.session
  /\ call.annotationId = "r9"
  /\ ret.status = 200
  /\ \E k \in DOMAIN ret.table :
       ret.table[k].id = "r9" /\ ret.table[k].tutorialId = "t2"
  /\ ret.table # call.origin

RouteOps == { "POST", "GET", "PUT", "DELETE" }

\* C32: without a session every annotation route answers 401, has not read
\* the body, has not touched the table and leaves it as it was.
C32_UnauthorizedFirst ==
  (Answered /\ call.op \in RouteOps /\ ~call.session) =>
    /\ ret.status = 401
    /\ ret.table = call.table
    /\ ~ret.bodyRead
    /\ ~ret.accessed

\* a create without a session whose body is not even JSON: 401, not 500
C32_Witness ==
  /\ Answered /\ call.op = "POST" /\ ~call.session /\ call.malformed
  /\ ret.status = 401
  /\ Len(call.table) = 3 /\ ret.table = call.table

\* the request of a signed-in client lacks a required field
LacksRequired ==
  CASE call.op = "POST" ->
         /\ ~call.malformed
         /\ \/ call.body.title.type = "undefined"
            \/ call.body.x.type = "undefined"
            \/ call.body.y.type = "undefined"
            \/ call.body.z.type = "undefined"
    [] call.op = "PUT" -> ~call.malformed /\ call.body.annotationId = ""
    [] call.op = "DELETE" -> call.annotationId = ""
    [] OTHER -> FALSE

\* C33: a create lacking title, x, y or z and an update or delete lacking
\* annotationId are answered 400 without the table having been queried or
\* written, the table is as before; a create with title and coordinates
\* is not refused, also when a coordinate is 0.
C33_ValidationLeavesStore ==
  (Answered /\ call.op \in RouteOps /\ call.session) =>
    /\ LacksRequired => (ret.status = 400 /\ ~ret.accessed /\ ret.table = call.table)
    /\ ret.status = 400 => (~ret.accessed /\ ret.table = call.table)
    /\ (call.op = "POST" /\ ~call.malformed
        /\ call.body.title.type = "string" /\ call.body.title.str # ""
        /\ call.body.x.type = "number" /\ call.body.y.type = "number"
        /\ call.body.z.type = "number")
         => (ret.status = 200 /\ Len(ret.table) = Len(call.table) + 1)

\* a create with x = 0 is stored
C33_Witness ==
  /\ Answered /\ call.op = "POST" /\ call.session /\ ~call.malformed
  /\ call.body.x = [type |-> "number", num |-> 0, str |-> ""]
  /\ ret.status = 200
  /\ ret.table[Len(ret.table)].x.num = 0
  /\ ret.table[Len(ret.table)].tutorialId = "t1"

\* C34 (as claimed): while the page lives (no reload, no redirect) the
\* completed set only grows: no step removes an id from it, the hydration
\* by a progress load that resolves late included.
C34_CompletedSetOnlyGrows ==
  [][ \/ completedSteps \subseteq completedSteps'
      \/ fetchStage' \in { "share", "left" } ]_vars

\* C35 (as claimed): saving is true exactly while at least one save request
\* is in flight, overlapping saves included.
C35_SavingReflectsInFlight ==
  saving = (Len(saves) > 0)

\* C36 (as claimed): a displayed warning is cleared by a timer only when
\* its own 2-second timer comes due; the timers of equal delay fire in the
\* order they were set and the displayed warning is the last one raised,
\* so a timer that clears it must be the last one pending.
C36_WarningClearedByOwnTimer ==
  [][ (warningTimers' = warningTimers - 1
       /\ proximityWarning # NoWarning /\ proximityWarning' = NoWarning)
      => warningTimers' = 0 ]_vars

\* the overlay's listener handles the updateAnnotations at the head of the
\* queue
UpdateHandled ==
  /\ overlay.stage # "none"
  /\ toOverlay # << >> /\ toOverlay' = Tail(toOverlay)

HostValues == << host.annotations, host.activeAnnotationId >>

\* C37: if from some time on the overlay is loaded and the host's list and
\* active id no longer change, then from some time on the overlay's working
\* copy equals them; and every updateAnnotations the listener handles
\* replaces the whole working copy.
C37_OverlayConverges ==
  /\ (<>[](overlay.stage = "loaded") /\ <>[][HostValues' = HostValues]_vars)
       => <>[](overlay.annotations = host.annotations
               /\ overlay.activeAnnotationId = host.activeAnnotationId)
  /\ [][ UpdateHandled =>
           /\ overlay'.annotations = Head(toOverlay).annotations
           /\ overlay'.activeAnnotationId = Head(toOverlay).activeAnnotationId ]_vars

\* the host got its list only after the overlay had loaded with an empty
\* one, and the overlay has it now
C37_Witness ==
  /\ overlay.stage = "loaded" /\ host.iframeReady
  /\ overlay.received
  /\ host.annotations = << "a", "b" >> /\ host.activeAnnotationId = "a"
  /\ overlay.annotations = host.annotations
  /\ overlay.activeAnnotationId = host.activeAnnotationId
  /\ toOverlay = << >>

\* C38: the host never posts an updateAnnotations with an older list or
\* active id after a newer one: whatever step posts one (the effect's
\* immediate send, a backup timer, the reply to requestAnnotations), the
\* message posted carries the list and the active id the host holds at that
\* step, and a change of either leaves pending only the four timers of the
\* new run, whose closure holds the new values.
C38_NoStaleUpdate ==
  [][ /\ (host'.mounted /\ UpdateSent)
          => toOverlay'[Len(toOverlay')] =
               UpdateAnnotations(host'.annotations, host'.activeAnnotationId)
      /\ (host.mounted /\ HostValues' # HostValues)
          => /\ host'.timers = BACKOFF
             /\ host'.scheduled =
                  UpdateAnnotations(host'.annotations, host'.activeAnnotationId) ]_vars

\* C38 witness: two updates are on their way, the older one first, the
\* newer one carrying what the host holds now, and the timers pending are
\* the four of the run the change started.
C38_Witness ==
  /\ host.mounted /\ host.iframeReady
  /\ Len(toOverlay) = 2
  /\ toOverlay[1] # toOverlay[2]
  /\ toOverlay[2] = UpdateAnnotations(host.annotations, host.activeAnnotationId)
  /\ host.timers = BACKOFF /\ host.sentAt = << 0 >>

\* C39 (as claimed), as a property of the runs: whatever changes of editMode
\* the host went through, also those made before the overlay script
\* listens, once the host's editMode stays at a value and the overlay
\* script runs, the overlay's editMode ends up at that value (so that a
\* double click places an annotation exactly when the host is in edit
\* mode).
C39_EditModeEventuallyEqual ==
  \A b \in BOOLEAN :
    <>[](host.mounted /\ overlay.stage # "none" /\ host.editMode = b)
      => <>[](overlay.editMode = b)

\* C39 (as claimed), as a final result: nothing but a setEditMode message
\* changes the overlay's editMode, so once the overlay is loaded and no
\* setEditMode message is on its way, the overlay's editMode is the host's.
C39_EditModeConverges ==
  (host.mounted /\ overlay.stage = "loaded" /\ overlay.editInbox = << >>)
    => overlay.editMode = host.editMode

StepIds == { sortedAnnotations[k].id : k \in 1..stepCount }

\* C40 (as claimed): the percentage shown is an integer from 0 to 100; with
\* steps it is the integer nearest to |completed set| / stepCount * 100,
\* without steps it is 0; and it is 100 exactly when every step of the
\* tutorial is in the completed set.
C40_Percentage ==
  /\ progress \in 0..100
  /\ IF stepCount > 0
     THEN /\ 2 * 100 * Cardinality(completedSteps) - stepCount
                <= 2 * stepCount * progress
          /\ 2 * stepCount * progress
                <= 2 * 100 * Cardinality(completedSteps) + stepCount
          /\ (progress = 100) <=> (StepIds \subseteq completedSteps)
     ELSE progress = 0

====
